---------------------------- MODULE Spec2Model ----------------------------
(***************************************************************************)
(* A model of the CHIP-8 toolchain of cmdneo/chip-8xx: the instruction     *)
(* tables (src/include/chip8.hxx), the decoder (src/emulator/decoder.cxx), *)
(* the interpreter core (src/emulator/emulator.cxx, emulator.hxx), the     *)
(* host loop that drives it (src/emulator/main.cxx) and the assembler      *)
(* (src/assembler/lexer.cxx, parser.cxx, main.cxx).                        *)
(*                                                                         *)
(* Encodings.                                                              *)
(*  - ram holds the non-zero bytes of std::array<uint8_t, 4096> ram{}:     *)
(*    an address outside DOMAIN ram reads 0 (ReadRam / WriteRam).          *)
(*  - screen is the set of <<y, x>> whose bit is set in screen[y][x].      *)
(*  - dtimer and stimer are the double accumulators counted in quanta of   *)
(*    1/TimerScale timer tick; age is the time since last_time in quanta   *)
(*    of 1/(C8_TIMER_FREQ * TimerScale) second, so that update_timers      *)
(*    subtracts age from both accumulators.                                *)
(*  - call is the record of the most recent step() call: the machine on    *)
(*    entry, the value returned, what was fetched and which array indices  *)
(*    were used.  It is what the properties below read.                    *)
(*  - fn holds the arguments and the result of a pure function             *)
(*    (SpecDecode, SpecLimit, SpecClassify).                               *)
(*  - parser holds the Parser object p, the text it was made from (lines), *)
(*    how far parse_and_assemble has come (phase) and what it returned     *)
(*    (SpecAsm).  A source text is a sequence of words.                    *)
(***************************************************************************)
EXTENDS Integers, Sequences, FiniteSets, TLC

VARIABLES
    \* class Emulator (src/emulator/emulator.hxx)
    pc, index, sp, key, regs, screen,
    error, wait_for_key, dtimer, stimer, key_reg, stack, ram,
    \* steady_clock::now() - last_time
    age,
    \* main() (src/emulator/main.cxx)
    rom, pressed_key, paused, instr_per_frame, host_pc, frame_i,
    \* observation of the last step() call, and the number of calls made
    call, steps,
    \* arguments and result of a pure function
    fn,
    \* class Parser (src/assembler/parser.hxx)
    parser

emu_vars == <<pc, index, sp, key, regs, screen, error, wait_for_key,
              dtimer, stimer, key_reg, stack, ram>>
host_vars == <<rom, pressed_key, paused, instr_per_frame, host_pc, frame_i>>
vars == <<emu_vars, age, host_vars, call, steps, fn, parser>>

----------------------------------------------------------------------------
(* src/include/chip8.hxx *)

C8_SCREEN_WIDTH == 64
C8_SCREEN_HEIGHT == 32
C8_TIMER_FREQ == 60
C8_KEY_NONE == 16
C8_KEY_CNT == 16
C8_REG_CNT == 16
C8_FONT_CNT == 16
C8_FONT_HEIGHT == 5
C8_VX_OFFSET == 8
C8_VY_OFFSET == 4
\* C8_INSTR_LEN in chip8.hxx; emulator.cxx names it C8_INS_LEN.
C8_INS_LEN == 2
C8_STACK_SIZE == 16
C8_RAM_SIZE == 4096
C8_PROG_START == 512
C8_FLAG_REG == 15

FONT_SPRITES ==
    << <<240, 144, 144, 144, 240>>, <<32, 96, 32, 32, 112>>,
       <<240, 16, 240, 128, 240>>,  <<240, 16, 240, 16, 240>>,
       <<144, 144, 240, 16, 16>>,   <<240, 128, 240, 16, 240>>,
       <<240, 128, 240, 144, 240>>, <<240, 16, 32, 64, 64>>,
       <<240, 144, 240, 144, 240>>, <<240, 144, 240, 16, 240>>,
       <<240, 144, 240, 144, 144>>, <<224, 144, 224, 144, 224>>,
       <<240, 128, 128, 128, 240>>, <<224, 144, 144, 144, 224>>,
       <<240, 128, 240, 128, 240>>, <<240, 128, 240, 128, 128>> >>

\* enum class Instruction, in declaration order (ILLEGAL is the marker after
\* the 35 instructions).
Instruction ==
    << "CLS", "RET", "SYS_a", "JP_a", "CALL_a", "SE_v_b", "SNE_v_b", "SE_v_v",
       "LD_v_b", "ADD_v_b", "LD_v_v", "OR_v_v", "AND_v_v", "XOR_v_v",
       "ADD_v_v", "SUB_v_v", "SHR_v", "SUBN_v_v", "SHL_v", "SNE_v_v",
       "LD_I_a", "JP_V0_a", "RND_v_b", "DRW_v_v_n", "SKP_v", "SKNP_v",
       "LD_v_DT", "LD_v_K", "LD_DT_v", "LD_ST_v", "ADD_I_v", "LD_F_v",
       "LD_B_v", "LD_IM_v", "LD_v_IM" >>

ILLEGAL == "ILLEGAL"

\* A table in which one format (LD_v_v) takes a nibble that is not its last
\* lexeme, after the lexemes LD I , of LD_I_a.
INSTRUCTION_FORMATS_ambiguous ==
    << <<"CLS">>, <<"RET">>, <<"SYS", "a">>, <<"JP", "a">>, <<"CALL", "a">>,
       <<"SE", "v", ",", "b">>, <<"SNE", "v", ",", "b">>,
       <<"SE", "v", ",", "v">>, <<"LD", "v", ",", "b">>,
       <<"ADD", "v", ",", "b">>, <<"LD", "I", ",", "n", ",", "v">>,
       <<"OR", "v", ",", "v">>, <<"AND", "v", ",", "v">>,
       <<"XOR", "v", ",", "v">>, <<"ADD", "v", ",", "v">>,
       <<"SUB", "v", ",", "v">>, <<"SHR", "v">>, <<"SUBN", "v", ",", "v">>,
       <<"SHL", "v">>, <<"SNE", "v", ",", "v">>, <<"LD", "I", ",", "a">>,
       <<"JP", "V0", ",", "a">>, <<"RND", "v", ",", "b">>,
       <<"DRW", "v", ",", "v", ",", "n">>, <<"SKP", "v">>, <<"SKNP", "v">>,
       <<"LD", "v", ",", "DT">>, <<"LD", "v", ",", "K">>,
       <<"LD", "DT", ",", "v">>, <<"LD", "ST", ",", "v">>,
       <<"ADD", "I", ",", "v">>, <<"LD", "F", ",", "v">>,
       <<"LD", "B", ",", "v">>, <<"LD", "[", "I", "]", ",", "v">>,
       <<"LD", "v", ",", "[", "I", "]">> >>

\* INSTRUCTION_FORMATS, each format written as the sequence of its lexemes.
INSTRUCTION_FORMATS ==
    << <<"CLS">>, <<"RET">>, <<"SYS", "a">>, <<"JP", "a">>, <<"CALL", "a">>,
       <<"SE", "v", ",", "b">>, <<"SNE", "v", ",", "b">>,
       <<"SE", "v", ",", "v">>, <<"LD", "v", ",", "b">>,
       <<"ADD", "v", ",", "b">>, <<"LD", "v", ",", "v">>,
       <<"OR", "v", ",", "v">>, <<"AND", "v", ",", "v">>,
       <<"XOR", "v", ",", "v">>, <<"ADD", "v", ",", "v">>,
       <<"SUB", "v", ",", "v">>, <<"SHR", "v">>, <<"SUBN", "v", ",", "v">>,
       <<"SHL", "v">>, <<"SNE", "v", ",", "v">>, <<"LD", "I", ",", "a">>,
       <<"JP", "V0", ",", "a">>, <<"RND", "v", ",", "b">>,
       <<"DRW", "v", ",", "v", ",", "n">>, <<"SKP", "v">>, <<"SKNP", "v">>,
       <<"LD", "v", ",", "DT">>, <<"LD", "v", ",", "K">>,
       <<"LD", "DT", ",", "v">>, <<"LD", "ST", ",", "v">>,
       <<"ADD", "I", ",", "v">>, <<"LD", "F", ",", "v">>,
       <<"LD", "B", ",", "v">>, <<"LD", "[", "I", "]", ",", "v">>,
       <<"LD", "v", ",", "[", "I", "]">> >>

\* OPCODES: 0x00E0, 0x00EE, 0x0000, 0x1000, ... 0xF065.
OPCODES ==
    << 224, 238, 0, 4096, 8192, 12288, 16384, 20480, 24576,
       28672, 32768, 32769, 32770, 32771, 32772, 32773, 32774, 32775,
       32782, 36864, 40960, 45056, 49152, 53248, 57502, 57505, 61447,
       61450, 61461, 61464, 61470, 61481, 61491, 61525, 61541 >>

----------------------------------------------------------------------------
(* Fixed-width integers and the bitwise operators of the source. *)

U8(x) == x % 256
U16(x) == x % 65536

RECURSIVE BitAnd(_, _)
BitAnd(a, b) ==
    IF a = 0 \/ b = 0 THEN 0
    ELSE (a % 2) * (b % 2) + 2 * BitAnd(a \div 2, b \div 2)

RECURSIVE BitOr(_, _)
BitOr(a, b) ==
    IF a = 0 THEN b
    ELSE IF b = 0 THEN a
    ELSE (IF a % 2 = 1 \/ b % 2 = 1 THEN 1 ELSE 0)
         + 2 * BitOr(a \div 2, b \div 2)

RECURSIVE BitXor(_, _)
BitXor(a, b) ==
    IF a = 0 THEN b
    ELSE IF b = 0 THEN a
    ELSE ((a + b) % 2) + 2 * BitXor(a \div 2, b \div 2)

\* (word >> offset) & ~(~0U << n)
get_bits(word, offset, n) == (word \div (2 ^ offset)) % (2 ^ n)

----------------------------------------------------------------------------
(* src/emulator/decoder.cxx *)

ms_opcode_x8_map ==
    << "LD_v_v", "OR_v_v", "AND_v_v", "XOR_v_v",
       "ADD_v_v", "SUB_v_v", "SHR_v", "SUBN_v_v" >>

\* A classification that takes every 8xy8 .. 8xyF for SHL.
DecodeType_lax(ins, nibble, byte) ==
    LET ms == get_bits(ins, 12, 4) IN
    CASE ms = 0 -> (IF ins = 224 THEN "CLS"
                    ELSE IF ins = 238 THEN "RET" ELSE "SYS_a")
      [] ms \in 1 .. 7 ->
            << "JP_a", "CALL_a", "SE_v_b", "SNE_v_b", "SE_v_v", "LD_v_b",
               "ADD_v_b" >>[ms]
      [] ms = 8 -> (IF nibble <= 7 THEN ms_opcode_x8_map[nibble + 1]
                    ELSE "SHL_v")
      [] ms \in 9 .. 13 ->
            << "SNE_v_v", "LD_I_a", "JP_V0_a", "RND_v_b", "DRW_v_v_n" >>[ms - 8]
      [] ms = 14 -> (IF byte = 158 THEN "SKP_v"
                     ELSE IF byte = 161 THEN "SKNP_v" ELSE ILLEGAL)
      [] OTHER -> (CASE byte = 7 -> "LD_v_DT" [] byte = 10 -> "LD_v_K"
                     [] byte = 21 -> "LD_DT_v" [] byte = 24 -> "LD_ST_v"
                     [] byte = 30 -> "ADD_I_v" [] byte = 41 -> "LD_F_v"
                     [] byte = 51 -> "LD_B_v" [] byte = 85 -> "LD_IM_v"
                     [] byte = 101 -> "LD_v_IM" [] OTHER -> ILLEGAL)

\* The classification switch of the constructor.
DecodeType(ins, nibble, byte) ==
    LET ms == get_bits(ins, 12, 4) IN
    CASE ms = 0 -> (IF ins = 224 THEN "CLS"
                    ELSE IF ins = 238 THEN "RET"
                    ELSE "SYS_a")
      [] ms = 1 -> "JP_a"
      [] ms = 2 -> "CALL_a"
      [] ms = 3 -> "SE_v_b"
      [] ms = 4 -> "SNE_v_b"
      [] ms = 5 -> "SE_v_v"
      [] ms = 6 -> "LD_v_b"
      [] ms = 7 -> "ADD_v_b"
      [] ms = 8 -> (IF nibble <= 7 THEN ms_opcode_x8_map[nibble + 1]
                    ELSE IF nibble = 14 THEN "SHL_v"
                    ELSE ILLEGAL)
      [] ms = 9 -> "SNE_v_v"
      [] ms = 10 -> "LD_I_a"
      [] ms = 11 -> "JP_V0_a"
      [] ms = 12 -> "RND_v_b"
      [] ms = 13 -> "DRW_v_v_n"
      [] ms = 14 -> (IF byte = 158 THEN "SKP_v"
                     ELSE IF byte = 161 THEN "SKNP_v"
                     ELSE ILLEGAL)
      [] ms = 15 -> (CASE byte = 7 -> "LD_v_DT"
                       [] byte = 10 -> "LD_v_K"
                       [] byte = 21 -> "LD_DT_v"
                       [] byte = 24 -> "LD_ST_v"
                       [] byte = 30 -> "ADD_I_v"
                       [] byte = 41 -> "LD_F_v"
                       [] byte = 51 -> "LD_B_v"
                       [] byte = 85 -> "LD_IM_v"
                       [] byte = 101 -> "LD_v_IM"
                       [] OTHER -> ILLEGAL)
      [] OTHER -> ILLEGAL

\* A decoder that indexes the 0x8 table one entry too far (SUB and SUBN
\* exchanged with their neighbours).
DecodedIns_shifted_map(ins) ==
    LET nib == get_bits(ins, 0, 4)
        t == DecodeType(ins, nib, get_bits(ins, 0, 8))
    IN  [ type |-> IF get_bits(ins, 12, 4) = 8 /\ nib <= 6
                   THEN ms_opcode_x8_map[nib + 2] ELSE t,
          bincode |-> ins,
          addr |-> get_bits(ins, 0, 12),
          vx |-> get_bits(ins, C8_VX_OFFSET, 4),
          vy |-> get_bits(ins, C8_VY_OFFSET, 4),
          byte |-> get_bits(ins, 0, 8),
          nibble |-> nib ]

\* DecodedIns::DecodedIns(uint16_t ins)
DecodedIns(ins) ==
    LET nib == get_bits(ins, 0, 4)
        byt == get_bits(ins, 0, 8)
    IN  [ type |-> DecodeType(ins, nib, byt),
          bincode |-> ins,
          addr |-> get_bits(ins, 0, 12),
          vx |-> get_bits(ins, C8_VX_OFFSET, 4),
          vy |-> get_bits(ins, C8_VY_OFFSET, 4),
          byte |-> byt,
          nibble |-> nib ]

----------------------------------------------------------------------------
(* src/assembler/lexer.cxx

   A source text is the sequence of its words: the maximal runs of
   characters one call of Lexer::next_token takes as a lexeme, with the
   blanks between them dropped.  A lexeme (std::string_view) is a sequence
   of words too: one word for a token of next_token, the rest of the line
   for a Raw token.  Comments are not written in the sources used here. *)

\* REGISTERS and SPECIAL_REGISTERS of chip8.hxx.
REGISTERS ==
    << "V0", "V1", "V2", "V3", "V4", "V5", "V6", "V7",
       "V8", "V9", "VA", "VB", "VC", "VD", "VE", "VF" >>

SPECIAL_REGISTERS == << "F", "B", "I", "K", "DT", "ST" >>

\* INSTRUCTIONS of chip8.hxx: the mnemonic of each format.
INSTRUCTIONS == [i \in 1 .. Len(INSTRUCTION_FORMATS) |-> INSTRUCTION_FORMATS[i][1]]

\* std::tolower applied to every character, on the words written with
\* lower-case letters in the sources used here (upper case stands for the
\* common image); every other word has no cased twin among them.
Fold(w) ==
    CASE w = "cls" -> "CLS"
      [] w = "jp" -> "JP"
      [] w = "ld" -> "LD"
      [] w = "v1" -> "V1"
      [] w = "v0" -> "V0"
      [] w = "i" -> "I"
      [] w = "dt" -> "DT"
      [] w = "db" -> "DB"
      [] w = "%DEFINE" -> "%define"
      [] OTHER -> w

\* inline auto icase_equals(std::string_view s, std::string_view t)
icase_equals(s, t) == Fold(s) = Fold(t)

\* The words Lexer::immediate reads (first character a digit, + or -) with
\* the value it gives them.
ImmediateValue ==
    [ w \in { "0", "1", "5", "7", "15", "16", "255", "256", "300", "0xAB",
              "0x204", "0xFFF", "0x1000", "-1", "-8", "-9", "-128", "-129" } |->
        CASE w = "0" -> 0 [] w = "1" -> 1 [] w = "5" -> 5 [] w = "7" -> 7
          [] w = "15" -> 15 [] w = "16" -> 16 [] w = "255" -> 255
          [] w = "256" -> 256 [] w = "300" -> 300 [] w = "0xAB" -> 171
          [] w = "0x204" -> 516 [] w = "0xFFF" -> 4095 [] w = "0x1000" -> 4096
          [] w = "-1" -> 0 - 1 [] w = "-8" -> 0 - 8 [] w = "-9" -> 0 - 9
          [] w = "-128" -> 0 - 128 [] OTHER -> 0 - 129 ]

\* The one-character words next_token returns as Char, with the character.
CharValue ==
    [ w \in { "\n", ":", ",", "[", "]" } |->
        CASE w = "\n" -> 10 [] w = ":" -> 58 [] w = "," -> 44
          [] w = "[" -> 91 [] OTHER -> 93 ]

NewLine == 10
Colon == 58

\* The words that begin with % followed by a letter (macro_token).
PercentWords == { "%define", "%DEFINE", "%undef" }

\* make_token(kind, value): lexeme "", Position{} and no origin.  A position
\* is the index of the word in the text the lexer reads (line and column).
make_token(kind, value) ==
    [kind |-> kind, lexeme |-> <<>>, pos |-> 0, value |-> value,
     origin |-> <<>>]

\* Token{}
NoToken == make_token("Invalid", 0)

\* The position of word w in table arr compared without case, 0 for none
\* (find_ident_in, counted from 1).
find_ident_in(arr, w) ==
    LET hits == {i \in 1 .. Len(arr) : icase_equals(w, arr[i])}
    IN  IF hits = {} THEN 0 ELSE CHOOSE i \in hits : \A k \in hits : i <= k

\* Lexer::identifier
identifier(w) ==
    IF icase_equals(w, "db") THEN make_token("Db", 0)
    ELSE IF find_ident_in(INSTRUCTIONS, w) > 0 THEN make_token("Instruction", 0)
    ELSE IF find_ident_in(REGISTERS, w) > 0
         THEN make_token("Register", find_ident_in(REGISTERS, w) - 1)
    ELSE IF find_ident_in(SPECIAL_REGISTERS, w) > 0
         THEN make_token("SpecialRegister", 0)
    ELSE make_token("Identifier", 0)

\* Lexer::macro_token
macro_token(w) ==
    IF icase_equals(w, "%define") THEN make_token("Define", 0)
    ELSE make_token("Invalid", 0)

\* class Lexer: the source, the index of the next word, the line-mode flag.
NewLexer(src) == [source |-> src, at |-> 1, next_token_as_line |-> FALSE]

is_at_end(lx) == lx.at > Len(lx.source)

\* Lexer::next_token: the token and the lexer after it.
next_token(lx) ==
    IF is_at_end(lx)
    THEN [tok |-> [make_token("Eof", 0) EXCEPT !.pos = lx.at], lexer |-> lx]
    ELSE LET w == lx.source[lx.at]
         IN  [tok |-> [(IF w \in DOMAIN ImmediateValue
                        THEN make_token("Immediate", ImmediateValue[w])
                        ELSE IF w \in PercentWords THEN macro_token(w)
                        ELSE IF w \in DOMAIN CharValue
                             THEN make_token("Char", CharValue[w])
                        ELSE identifier(w))
                       EXCEPT !.pos = lx.at, !.lexeme = <<w>>],
              lexer |-> [lx EXCEPT !.at = lx.at + 1]]

\* The index of the first newline at or after position i, or the end.
RECURSIVE LineEnd(_, _)
LineEnd(src, i) ==
    IF i > Len(src) \/ src[i] = "\n" THEN i ELSE LineEnd(src, i + 1)

\* Lexer::next: in line mode the rest of the line as one Raw token.
LexerNext(lx) ==
    IF ~lx.next_token_as_line THEN next_token(lx)
    ELSE LET e == LineEnd(lx.source, lx.at)
         IN  [tok |-> [make_token("Raw", 0) EXCEPT
                          !.pos = lx.at,
                          !.lexeme = SubSeq(lx.source, lx.at, e - 1)],
              lexer |-> [lx EXCEPT !.at = e, !.next_token_as_line = FALSE]]

\* Lexer::set_next_token_as_line
set_next_token_as_line(lx) == [lx EXCEPT !.next_token_as_line = TRUE]

----------------------------------------------------------------------------
(* src/assembler/parser.cxx *)

\* Statement{}
StatementDefault ==
    [label |-> NoToken, opcode |-> 0, imm |-> 0, vx |-> 0, vy |-> 0,
     is_data_byte |-> FALSE]

\* struct Statement of an instruction with its operand fields.
Statement(opcode, imm, vx, vy) ==
    [StatementDefault EXCEPT !.opcode = opcode, !.imm = imm, !.vx = vx,
                             !.vy = vy]

\* The instruction branch of the emission loop of parse_and_assemble.
EmitWord(stmt) ==
    LET c1 == BitOr(stmt.opcode, stmt.imm)
        c2 == BitOr(c1, U16(stmt.vx * (2 ^ C8_VX_OFFSET)))
    IN  BitOr(c2, U16(stmt.vy * (2 ^ C8_VY_OFFSET)))

NoValue == [ok |-> FALSE, v |-> 0]
Value(v) == [ok |-> TRUE, v |-> v]

Abs(n) == IF n < 0 THEN 0 - n ELSE n

\* static auto limit_value(int value, unsigned bits) -> std::optional<u16>
limit_value(value, bits) ==
    LET umax == (2 ^ bits) - 1
        av == Abs(value)
    IN  IF value >= 0 /\ av <= umax THEN Value(U16(av))
        ELSE IF value < 0 /\ av <= (umax + 1) \div 2
             \* ~av + 1 is -av modulo 2^32; the u16 result keeps its low
             \* 16 bits
             THEN Value(U16(0 - av))
        ELSE NoValue

\* constexpr int ERROR_LIMIT
ERROR_LIMIT == 10

\* auto x = v; followed by the statements F that use x: v is evaluated once.
Bind(v, F(_)) == F(v)

\* RuleMatcher's members as declared: nothing matching before
\* start_new_match.  rules is INSTRUCTION_FORMATS, which the constructor
\* splits into lexemes.
NewMatcher == [match_count |-> 0, matched |-> 0, matching |-> {}]

\* RuleMatcher::start_new_match
start_new_match ==
    [match_count |-> 0, matched |-> 0,
     matching |-> 1 .. Len(INSTRUCTION_FORMATS)]

\* icase_equals(rule_token, tok.lexeme): a rule token is one word.
LexemeIs(rule_token, lexeme) ==
    Len(lexeme) = 1 /\ icase_equals(rule_token, lexeme[1])

\* static auto match_one(std::string_view rule_token, Token tok) -> Matched
match_one(rule_token, tok) ==
    CASE rule_token = "v" ->
            (IF tok.kind = "Register" THEN "Register" ELSE "None")
      [] rule_token = "a" ->
            (IF tok.kind = "Identifier" THEN "Label"
             ELSE IF tok.kind = "Immediate" THEN "Address" ELSE "None")
      [] rule_token = "b" ->
            (IF tok.kind = "Immediate" THEN "Byte" ELSE "None")
      [] rule_token = "n" ->
            (IF tok.kind = "Immediate" THEN "Nibble" ELSE "None")
      [] OTHER -> (IF LexemeIs(rule_token, tok.lexeme) THEN "Exact" ELSE "None")

\* A for loop of try_next that records a rule also when the token before
\* its last has matched.
RECURSIVE TryRules_eager(_, _, _, _)
TryRules_eager(i, st, match_count, tok) ==
    IF i > Len(INSTRUCTION_FORMATS) THEN st
    ELSE IF i \notin st.matching
    THEN TryRules_eager(i + 1, st, match_count, tok)
    ELSE LET c == match_one(INSTRUCTION_FORMATS[i][match_count + 1], tok)
             st1 == [st EXCEPT
                       !.matching = IF c = "None" THEN @ \ {i} ELSE @,
                       !.code = IF @ = "None" THEN c
                                ELSE IF c # "None" /\ @ # c THEN "Multiple"
                                ELSE @]
         IN  IF c # "None" /\ match_count >= Len(INSTRUCTION_FORMATS[i]) - 2
             THEN [st1 EXCEPT !.matched = i]
             ELSE TryRules_eager(i + 1, st1, match_count, tok)

\* The for loop of try_next from rule i on; st holds matching, matched and
\* code.
RECURSIVE TryRules(_, _, _, _)
TryRules(i, st, match_count, tok) ==
    IF i > Len(INSTRUCTION_FORMATS) THEN st
    ELSE IF i \notin st.matching THEN TryRules(i + 1, st, match_count, tok)
    ELSE LET c == match_one(INSTRUCTION_FORMATS[i][match_count + 1], tok)
             st1 == [st EXCEPT
                       !.matching = IF c = "None" THEN @ \ {i} ELSE @,
                       !.code = IF @ = "None" THEN c
                                ELSE IF c # "None" /\ @ # c THEN "Multiple"
                                ELSE @]
         IN  IF c # "None" /\ match_count = Len(INSTRUCTION_FORMATS[i]) - 1
             THEN [st1 EXCEPT !.matched = i]
             ELSE TryRules(i + 1, st1, match_count, tok)

\* auto RuleMatcher::try_next(Token tok) -> Matched: the matcher after the
\* call and the code returned.
try_next(m, tok) ==
    IF m.matched # 0 THEN [matcher |-> m, code |-> "None"]
    ELSE Bind(TryRules(1, [matching |-> m.matching, matched |-> 0,
                           code |-> "None"], m.match_count, tok),
              LAMBDA st :
                [matcher |->
                    [match_count |-> IF st.code # "None"
                                     THEN m.match_count + 1
                                     ELSE m.match_count,
                     matched |-> st.matched,
                     matching |-> st.matching],
                 code |-> st.code])

\* std::optional<ActiveMacro>{}
NoActiveMacro ==
    [on |-> FALSE, macro |-> <<>>, expand_pos |-> 0, lexer |-> NewLexer(<<>>)]

\* Parser::Parser(src) with the default member initialisers.
NewParser(src) ==
    [ lexer |-> NewLexer(src),
      previous |-> NoToken,
      current |-> NoToken,
      matcher |-> NewMatcher,
      active_macro |-> NoActiveMacro,
      macros |-> <<>>,
      error_count |-> 0,
      next_stmt_addr |-> C8_PROG_START,
      statements |-> <<>>,
      label_targets |-> <<>> ]

\* map[key] = v
MapSet(map, name, v) ==
    [k \in (DOMAIN map) \cup {name} |-> IF k = name THEN v ELSE map[k]]

\* An advance that never looks a lexeme up in macros.
AdvanceLoop_plain(p) ==
    LET r == LexerNext(p.lexer)
    IN  [p EXCEPT !.current = r.tok, !.lexer = r.lexer]

\* An advance that looks up the lexeme of Identifier tokens only.
RECURSIVE AdvanceLoop_identifiers(_)
AdvanceLoop_identifiers(p) ==
    IF p.active_macro.on
    THEN Bind(LexerNext(p.active_macro.lexer), LAMBDA r :
           IF r.tok.kind # "Eof"
           THEN [p EXCEPT
                   !.current = [r.tok EXCEPT
                                  !.origin = p.active_macro.macro,
                                  !.pos = p.active_macro.expand_pos],
                   !.active_macro.lexer = r.lexer]
           ELSE AdvanceLoop_identifiers(
                  [p EXCEPT
                     !.current = [r.tok EXCEPT
                                    !.origin = p.active_macro.macro,
                                    !.pos = p.active_macro.expand_pos],
                     !.active_macro = NoActiveMacro]))
    ELSE Bind(LexerNext(p.lexer), LAMBDA r :
           IF r.tok.kind # "Identifier"
              \/ r.tok.lexeme \notin DOMAIN p.macros
           THEN [p EXCEPT !.current = r.tok, !.lexer = r.lexer]
           ELSE AdvanceLoop_identifiers(
                  [p EXCEPT
                     !.current = r.tok,
                     !.lexer = r.lexer,
                     !.active_macro =
                        [on |-> TRUE, macro |-> r.tok.lexeme,
                         expand_pos |-> r.tok.pos,
                         lexer |-> NewLexer(p.macros[r.tok.lexeme].subst)]]))

\* An advance that looks a token of the substitution text up in macros and
\* expands it one further level.
RECURSIVE AdvanceLoop_nested(_)
AdvanceLoop_nested(p) ==
    IF p.active_macro.on
    THEN Bind(LexerNext(p.active_macro.lexer), LAMBDA r :
           IF r.tok.kind = "Eof"
           THEN AdvanceLoop_nested(
                  [p EXCEPT
                     !.current = [r.tok EXCEPT
                                    !.origin = p.active_macro.macro,
                                    !.pos = p.active_macro.expand_pos],
                     !.active_macro = NoActiveMacro])
           ELSE IF r.tok.lexeme \in DOMAIN p.macros
                   /\ p.macros[r.tok.lexeme].subst # <<>>
           THEN Bind(LexerNext(NewLexer(p.macros[r.tok.lexeme].subst)),
                  LAMBDA n :
                    [p EXCEPT
                       !.current = [n.tok EXCEPT
                                      !.origin = r.tok.lexeme,
                                      !.pos = p.active_macro.expand_pos],
                       !.active_macro =
                          [on |-> TRUE, macro |-> r.tok.lexeme,
                           expand_pos |-> p.active_macro.expand_pos,
                           lexer |-> n.lexer]])
           ELSE [p EXCEPT
                   !.current = [r.tok EXCEPT
                                  !.origin = p.active_macro.macro,
                                  !.pos = p.active_macro.expand_pos],
                   !.active_macro.lexer = r.lexer])
    ELSE Bind(LexerNext(p.lexer), LAMBDA r :
           IF r.tok.lexeme \notin DOMAIN p.macros
           THEN [p EXCEPT !.current = r.tok, !.lexer = r.lexer]
           ELSE AdvanceLoop_nested(
                  [p EXCEPT
                     !.current = r.tok,
                     !.lexer = r.lexer,
                     !.active_macro =
                        [on |-> TRUE, macro |-> r.tok.lexeme,
                         expand_pos |-> r.tok.pos,
                         lexer |-> NewLexer(p.macros[r.tok.lexeme].subst)]]))

\* The for loop of Parser::advance.
RECURSIVE AdvanceLoop(_)
AdvanceLoop(p) ==
    IF p.active_macro.on
    THEN Bind(LexerNext(p.active_macro.lexer), LAMBDA r :
           IF r.tok.kind # "Eof"
           THEN [p EXCEPT
                   !.current = [r.tok EXCEPT
                                  !.origin = p.active_macro.macro,
                                  !.pos = p.active_macro.expand_pos],
                   !.active_macro.lexer = r.lexer]
           ELSE AdvanceLoop(
                  [p EXCEPT
                     !.current = [r.tok EXCEPT
                                    !.origin = p.active_macro.macro,
                                    !.pos = p.active_macro.expand_pos],
                     !.active_macro = NoActiveMacro]))
    ELSE Bind(LexerNext(p.lexer), LAMBDA r :
           IF r.tok.lexeme \notin DOMAIN p.macros
           THEN [p EXCEPT !.current = r.tok, !.lexer = r.lexer]
           ELSE AdvanceLoop(
                  [p EXCEPT
                     !.current = r.tok,
                     !.lexer = r.lexer,
                     !.active_macro =
                        [on |-> TRUE, macro |-> r.tok.lexeme,
                         expand_pos |-> r.tok.pos,
                         lexer |-> NewLexer(p.macros[r.tok.lexeme].subst)]]))

\* auto Parser::advance() -> Token (the token returned is previous)
advance(p) == AdvanceLoop([p EXCEPT !.previous = p.current])

\* The number of calls of Lexer::next the for loop of Parser::advance makes.
RECURSIVE LexerCalls(_)
LexerCalls(p) ==
    IF p.active_macro.on
    THEN IF LexerNext(p.active_macro.lexer).tok.kind # "Eof" THEN 1
         ELSE 1 + LexerCalls([p EXCEPT !.active_macro = NoActiveMacro])
    ELSE Bind(LexerNext(p.lexer), LAMBDA r :
           IF r.tok.lexeme \notin DOMAIN p.macros THEN 1
           ELSE 1 + LexerCalls(
                      [p EXCEPT
                         !.lexer = r.lexer,
                         !.active_macro =
                            [on |-> TRUE, macro |-> r.tok.lexeme,
                             expand_pos |-> r.tok.pos,
                             lexer |->
                                NewLexer(p.macros[r.tok.lexeme].subst)]]))

\* auto Parser::match(TokenKind kind, std::optional<int> value) -> bool
match(p, kind, value) ==
    p.current.kind = kind /\ (value.ok => value.v = p.current.value)

\* void Parser::log_err
log_err(p) == [p EXCEPT !.error_count = @ + 1]

\* auto Parser::expect(TokenKind kind, std::optional<int> value) -> Result
expect(p, kind, value) ==
    IF match(p, kind, value) THEN [p |-> advance(p), res |-> "Ok"]
    ELSE [p |-> log_err(p), res |-> "Err"]

\* void Parser::add_statement(Statement stmt)
add_statement(p, stmt) ==
    IF p.error_count # 0 THEN p
    ELSE [p EXCEPT !.statements = Append(@, stmt),
                   !.next_stmt_addr =
                       U16(@ + (IF stmt.is_data_byte THEN 1 ELSE C8_INS_LEN))]

\* A parse_label that takes the last definition of a label, without error.
parse_label_last(p) ==
    Bind(expect(p, "Char", Value(Colon)), LAMBDA e :
      IF e.res = "Err" THEN e
      ELSE [p |-> [e.p EXCEPT !.label_targets =
                       MapSet(@, p.previous.lexeme, e.p.next_stmt_addr)],
            res |-> "Ok"])

\* auto Parser::parse_label() -> Result
parse_label(p) ==
    Bind(expect(p, "Char", Value(Colon)), LAMBDA e :
      LET label == p.previous
      IN  IF e.res = "Err" THEN e
          ELSE IF label.lexeme \in DOMAIN e.p.label_targets
               THEN [p |-> log_err(e.p), res |-> "Ok"]
          ELSE [p |-> [e.p EXCEPT !.label_targets =
                           MapSet(@, label.lexeme, e.p.next_stmt_addr)],
                res |-> "Ok"])

\* The switch on mc in the for loop of parse_instruction, for the parser q
\* after try_next: the parser, the statement and regs_matched after it;
\* res is "Break" where the switch is left for the advance() that follows
\* it, and "Panic" stands for abort().
MatchedSwitch(q, mc, stmt, regs_matched) ==
    LET out(p1, st, n, r) ==
            [p |-> p1, stmt |-> st, regs_matched |-> n, res |-> r]
    IN  CASE mc = "None" -> out(log_err(q), stmt, regs_matched, "Err")
          [] mc = "Multiple" ->
                out(q, stmt, regs_matched,
                    IF q.current.kind = "Immediate" THEN "Panic" ELSE "Break")
          [] mc = "Register" ->
                (IF regs_matched = 0
                 THEN out(q, [stmt EXCEPT !.vx = q.current.value], 1, "Break")
                 ELSE IF regs_matched = 1
                 THEN out(q, [stmt EXCEPT !.vy = q.current.value], 2, "Break")
                 ELSE out(q, stmt, regs_matched, "Panic"))
          [] mc = "Label" ->
                out(q, [stmt EXCEPT !.label = q.current], regs_matched,
                    "Break")
          [] mc \in {"Address", "Byte", "Nibble"} ->
                (LET bits == CASE mc = "Address" -> 12
                               [] mc = "Byte" -> 8
                               [] OTHER -> 4
                     v == limit_value(q.current.value, bits)
                 IN  IF v.ok
                     THEN out(q, [stmt EXCEPT !.imm = v.v], regs_matched,
                              "Break")
                     ELSE out(log_err(q), stmt, regs_matched, "Break"))
          [] OTHER -> out(q, stmt, regs_matched, "Break")

\* The for loop of parse_instruction.
RECURSIVE InstructionLoop(_, _, _)
InstructionLoop(p, stmt, regs_matched) ==
    IF p.matcher.matched # 0
    THEN [p |-> add_statement(p, [stmt EXCEPT
                                    !.opcode = OPCODES[p.matcher.matched]]),
          res |-> "Ok"]
    ELSE Bind(try_next(p.matcher, p.current), LAMBDA t :
           Bind(MatchedSwitch([p EXCEPT !.matcher = t.matcher], t.code,
                              stmt, regs_matched),
                LAMBDA s :
                  IF s.res # "Break" THEN [p |-> s.p, res |-> s.res]
                  ELSE InstructionLoop(advance(s.p), s.stmt,
                                       s.regs_matched)))

\* auto Parser::parse_instruction() -> Result
parse_instruction(p) ==
    Bind(try_next(start_new_match, p.previous), LAMBDA t :
      IF t.code = "None"
      THEN [p |-> [p EXCEPT !.matcher = t.matcher], res |-> "Panic"]
      ELSE InstructionLoop([p EXCEPT !.matcher = t.matcher],
                           StatementDefault, 0))

\* std::isalpha(c) || c == '_' for the first character c of a word: the
\* words next_token hands to identifier().
AlphaStart(w) ==
    w \notin (DOMAIN ImmediateValue) \cup PercentWords \cup (DOMAIN CharValue)

\* auto Parser::parse_define() -> Result.  An empty lexeme (Eof) has no
\* first character; the terminator read there is no letter.
parse_define(p) ==
    LET p1 == IF p.current.lexeme # <<>> /\ AlphaStart(p.current.lexeme[1])
              THEN [p EXCEPT !.current.kind = "Identifier"] ELSE p
    IN  Bind(expect([p1 EXCEPT !.lexer = set_next_token_as_line(@)],
                    "Identifier", NoValue),
             LAMBDA e :
               IF e.res = "Err" THEN e
               ELSE Bind(advance(e.p), LAMBDA p3 :
                      LET name == e.p.previous.lexeme
                          subst == p3.previous
                      IN  [p |-> [p3 EXCEPT !.macros =
                                     MapSet(@, name,
                                            [name |-> name,
                                             subst |-> subst.lexeme])],
                           res |-> "Ok"]))

\* auto Parser::parse_db() -> Result
parse_db(p) ==
    Bind(expect(p, "Immediate", NoValue), LAMBDA e :
      IF e.res = "Err" THEN e
      ELSE LET v == limit_value(e.p.previous.value, 8)
           IN  [p |-> add_statement(IF v.ok THEN e.p ELSE log_err(e.p),
                         [StatementDefault EXCEPT
                            !.imm = IF v.ok THEN v.v ELSE 0,
                            !.is_data_byte = TRUE]),
                res |-> "Ok"])

\* auto Parser::parse_statement() -> Result
parse_statement(p) ==
    Bind(IF match(p, "Identifier", NoValue) THEN parse_label(advance(p))
         ELSE [p |-> p, res |-> "Ok"],
         LAMBDA l :
           IF l.res # "Ok" THEN l
           ELSE Bind(IF match(l.p, "Instruction", NoValue)
                     THEN parse_instruction(advance(l.p))
                     ELSE IF match(l.p, "Db", NoValue)
                          THEN parse_db(advance(l.p))
                     ELSE IF match(l.p, "Define", NoValue)
                          THEN parse_define(advance(l.p))
                     ELSE l,
                     LAMBDA b :
                       IF b.res # "Ok" THEN b
                       ELSE expect(b.p, "Char", Value(NewLine))))

\* void Parser::recover(): the parser after the loop, or hung when the loop
\* has no newline left to find (every further advance gives Eof).
RECURSIVE recover(_)
recover(p) ==
    IF match(p, "Char", Value(NewLine))
    THEN [p |-> advance(p), hung |-> FALSE]
    ELSE IF p.current.kind = "Eof" /\ ~p.lexer.next_token_as_line
         THEN [p |-> p, hung |-> TRUE]
    ELSE recover(advance(p))

\* One turn of the while loop of parse_and_assemble, for current not Eof:
\* out tells whether the loop goes on ("loop"), the function returned {}
\* ("stop"), recover() never returned ("hung") or abort() was called
\* ("abort").
ParseTurn(p) ==
    IF p.error_count >= ERROR_LIMIT THEN [p |-> p, out |-> "stop"]
    ELSE Bind(parse_statement(p), LAMBDA r :
           CASE r.res = "Ok" -> [p |-> r.p, out |-> "loop"]
             [] r.res = "Panic" -> [p |-> r.p, out |-> "abort"]
             [] OTHER ->
                   Bind(recover(r.p), LAMBDA v :
                     [p |-> v.p,
                      out |-> IF v.hung THEN "hung" ELSE "loop"]))

\* A label loop that assigns nothing.
AssignLabels_none(r, lo, hi) == r

\* The label loop of parse_and_assemble over statements lo .. hi, halved
\* at each level: the turns run in the order of the list.  stop tells that
\* the loop returned {} at the error limit.
RECURSIVE AssignLabels(_, _, _)
AssignLabels(r, lo, hi) ==
    IF lo > hi \/ r.stop THEN r
    ELSE IF lo < hi
    THEN AssignLabels(AssignLabels(r, lo, (lo + hi) \div 2),
                      (lo + hi) \div 2 + 1, hi)
    ELSE IF r.p.error_count >= ERROR_LIMIT THEN [r EXCEPT !.stop = TRUE]
    ELSE LET lb == r.p.statements[lo].label.lexeme
         IN  IF lb = <<>> THEN r
             ELSE IF lb \in DOMAIN r.p.label_targets
                  THEN [r EXCEPT !.p.statements[lo].imm = r.p.label_targets[lb]]
             ELSE [r EXCEPT !.p = log_err(@)]

\* The bytes the emission loop pushes for one statement, low byte first.
EmitBytes_swapped(stmt) ==
    IF stmt.is_data_byte THEN <<U8(stmt.imm)>>
    ELSE <<EmitWord(stmt) % 256, EmitWord(stmt) \div 256>>

\* The bytes the emission loop pushes for one statement.
EmitBytes(stmt) ==
    IF stmt.is_data_byte THEN <<U8(stmt.imm)>>
    ELSE <<EmitWord(stmt) \div 256, EmitWord(stmt) % 256>>

\* The emission loop of parse_and_assemble over statements lo .. hi, halved
\* at each level.
RECURSIVE Emit(_, _, _)
Emit(statements, lo, hi) ==
    IF lo > hi THEN <<>>
    ELSE IF lo = hi THEN EmitBytes(statements[lo])
    ELSE Emit(statements, lo, (lo + hi) \div 2)
         \o Emit(statements, (lo + hi) \div 2 + 1, hi)

\* std::optional<std::vector<u8>>
NoBytes == [ok |-> FALSE, bytes |-> <<>>]
Bytes(b) == [ok |-> TRUE, bytes |-> b]

\* An end of parse_and_assemble that emits whatever the error count.
Finish_lenient(p) ==
    Bind(AssignLabels([p |-> p, stop |-> FALSE], 1, Len(p.statements)),
         LAMBDA r :
           [p |-> r.p,
            result |-> IF r.stop THEN NoBytes
                       ELSE Bytes(Emit(r.p.statements, 1,
                                       Len(r.p.statements)))])

\* parse_and_assemble after its while loop: labels, the error check, the
\* emission.
Finish(p) ==
    Bind(AssignLabels([p |-> p, stop |-> FALSE], 1, Len(p.statements)),
         LAMBDA r :
           [p |-> r.p,
            result |-> IF r.stop \/ r.p.error_count # 0 THEN NoBytes
                       ELSE Bytes(Emit(r.p.statements, 1,
                                       Len(r.p.statements)))])

\* The while loop of parse_and_assemble run to its end.
RECURSIVE ParseLoop(_)
ParseLoop(p) ==
    IF p.current.kind = "Eof" THEN [p |-> p, out |-> "loop"]
    ELSE Bind(ParseTurn(p), LAMBDA t :
           IF t.out = "loop" THEN ParseLoop(t.p) ELSE t)

\* auto Parser::parse_and_assemble(): how the call ends and what it
\* returns.
parse_and_assemble(src) ==
    Bind(ParseLoop(advance(NewParser(src))), LAMBDA w :
      IF w.out = "loop"
      THEN [ended |-> "returned", result |-> Finish(w.p).result]
      ELSE IF w.out = "stop"
      THEN [ended |-> "returned", result |-> NoBytes]
      ELSE [ended |-> w.out, result |-> NoBytes])

----------------------------------------------------------------------------
(* Model bounds *)

\* step() calls made on one Emulator value before the model stops calling.
MaxSteps == 7
\* Quanta per timer tick (resolution of the double accumulators).
TimerScale == 2
\* Largest time since last_time that is told apart, in quanta.
MaxAge == 2
\* step() calls made on the ROMs that nest calls deeper than the stack.
MaxDeepSteps == 18
\* Register and key used in the sampled programs beside 0 and F / none.
SampleReg == 5
SampleKey == 7
\* Operand bytes sampled: 0..MaxByteLow, 255-MaxByteLow..255, 127, 128.
MaxByteLow == 1
\* Distance of the sampled sprite positions from the screen edges.
DrawShift == 2
\* Largest instr_per_frame the host is driven to.
MaxIpf == 5
\* Largest |value| handed to limit_value.
MaxImm == 4100
\* step() calls made on the ROM that keeps adding to I.
MaxIndexSteps == 730
\* Lines of the assembly programs taken from the line alphabet.
MaxLines == 3

----------------------------------------------------------------------------
(* src/emulator/emulator.hxx, src/emulator/emulator.cxx *)

RegIdx == 0 .. (C8_REG_CNT - 1)
StackIdx == 0 .. (C8_STACK_SIZE - 1)
RamIdx == 0 .. (C8_RAM_SIZE - 1)

\* The address without the reduction.
RamIndex_raw(a) == a

\* a % C8_RAM_SIZE, the index of every ram access.
RamIndex(a) == a % C8_RAM_SIZE

\* ram[a], with ram holding the non-zero bytes only.
ReadRam(mem, a) == IF a \in DOMAIN mem THEN mem[a] ELSE 0

\* ram[a] = v
WriteRam(mem, a, v) ==
    IF v = 0
    THEN [x \in (DOMAIN mem) \ {a} |-> mem[x]]
    ELSE [x \in (DOMAIN mem) \cup {a} |-> IF x = a THEN v ELSE mem[x]]

\* FONT_SPRITES seen as bytes (the reinterpret_cast of the constructor).
RECURSIVE Flatten(_)
Flatten(rows) == IF rows = <<>> THEN <<>> ELSE Head(rows) \o Flatten(Tail(rows))

\* The RAM after the two copy() calls of the constructor: the font bytes
\* from address 0 and the ROM bytes from C8_PROG_START.
LoadedRam(bytes) ==
    LET font == Flatten(FONT_SPRITES)
        at(a) == IF a < Len(font) THEN font[a + 1]
                 ELSE IF a >= C8_PROG_START /\ a < C8_PROG_START + Len(bytes)
                 THEN bytes[a - C8_PROG_START + 1]
                 ELSE 0
        used == (0 .. (Len(font) - 1))
                \cup (C8_PROG_START .. (C8_PROG_START + Len(bytes) - 1))
    IN  [a \in {u \in used : at(u) # 0} |-> at(a)]

\* The member initialisers of class Emulator.
EmulatorDefaults ==
    [ pc |-> C8_PROG_START, index |-> 0, sp |-> 0, key |-> C8_KEY_NONE,
      regs |-> [r \in RegIdx |-> 0], screen |-> {},
      error |-> FALSE, wait_for_key |-> FALSE, dtimer |-> 0, stimer |-> 0,
      key_reg |-> 0, stack |-> [i \in StackIdx |-> 0], ram |-> <<>> ]

\* A constructor without the size check.
EmulatorNew_unchecked(bytes) ==
    [EmulatorDefaults EXCEPT !.ram = LoadedRam(bytes)]

\* Emulator::Emulator(rom_beg, rom_end)
EmulatorNew(bytes) ==
    IF Len(bytes) > C8_RAM_SIZE - C8_PROG_START
    THEN [EmulatorDefaults EXCEPT !.error = TRUE]
    ELSE [EmulatorDefaults EXCEPT
            !.ram = LoadedRam(bytes)]

\* The Emulator value held in the variables.
Emu ==
    [ pc |-> pc, index |-> index, sp |-> sp, key |-> key, regs |-> regs,
      screen |-> screen, error |-> error, wait_for_key |-> wait_for_key,
      dtimer |-> dtimer, stimer |-> stimer, key_reg |-> key_reg,
      stack |-> stack, ram |-> ram ]

SetEmu(m) ==
    /\ pc' = m.pc /\ index' = m.index /\ sp' = m.sp /\ key' = m.key
    /\ regs' = m.regs /\ screen' = m.screen /\ error' = m.error
    /\ wait_for_key' = m.wait_for_key /\ dtimer' = m.dtimer
    /\ stimer' = m.stimer /\ key_reg' = m.key_reg /\ stack' = m.stack
    /\ ram' = m.ram

\* std::lround(t) converted to std::uint8_t, t a non-negative accumulator.
LroundU8(t) == U8((2 * t + TimerScale) \div (2 * TimerScale))

\* Emulator::delay_timer()
delay_timer(m) == LroundU8(m.dtimer)

\* Emulator::sound_timer()
sound_timer(m) == LroundU8(m.stimer)

\* Emulator::fetch_ins(n)
fetch_ins(m, n) ==
    BitOr(ReadRam(m.ram, RamIndex(n)) * 256,
          ReadRam(m.ram, RamIndex(n + 1)))

\* An update_timers without its two clamps.
update_timers_unclamped(m, dt) ==
    [m EXCEPT !.stimer = @ - dt, !.dtimer = @ - dt]

\* Emulator::update_timers(dt), dt in quanta.
update_timers(m, dt) ==
    LET s == m.stimer - dt
        d == m.dtimer - dt
    IN  [m EXCEPT !.stimer = IF s < 0 THEN 0 ELSE s,
                  !.dtimer = IF d < 0 THEN 0 ELSE d]

\* An add_with_ovf that only ever raises the flag.
add_with_ovf_sticky(m, a, b) ==
    LET s == U8(a + b) IN
    [ s |-> s,
      m |-> IF s < a \/ s < b THEN [m EXCEPT !.regs[C8_FLAG_REG] = 1] ELSE m ]

\* Emulator::add_with_ovf(a, b): the sum, and the machine with VF written.
add_with_ovf(m, a, b) ==
    LET s == U8(a + b) IN
    [ s |-> s,
      m |-> [m EXCEPT !.regs[C8_FLAG_REG] = IF s < a \/ s < b THEN 1 ELSE 0] ]

\* ~v + 1 passed as a uint8_t argument.
Negate8(v) == U8((0 - v - 1) + 1)

\* (ram[(index + i) % C8_RAM_SIZE] >> (7 - j)) & 1
SpriteBit(m, i, j) ==
    (ReadRam(m.ram, RamIndex(m.index + i)) \div (2 ^ (7 - j))) % 2

\* yf = (y + i) % C8_SCREEN_HEIGHT and xf = (x + j) % C8_SCREEN_WIDTH
ScreenRow(y, i) == (y + i) % C8_SCREEN_HEIGHT
ScreenCol(x, j) == (x + j) % C8_SCREEN_WIDTH

\* The inner loop of draw_sprite for row i at screen row yf: the pixels it
\* flips.  Its 8 passes touch 8 different pixels, those of the columns
\* (x + j) % C8_SCREEN_WIDTH, and flip the ones whose sprite bit is 1.
RowFlips(m, x, yf, i) ==
    { <<yf, ScreenCol(x, j)>> :
        j \in {c \in 0 .. 7 : SpriteBit(m, i, c) = 1} }

\* The screen after new_px = screen[yf][xf] ^ img_px is stored for the
\* pixels of one row.
XorPixels(scr, flips) == (scr \ flips) \cup (flips \ scr)

\* draw_sprite with a flag that follows the last pixel of the last row and
\* is only ever raised.
RECURSIVE DrawRows_last(_, _, _, _, _, _)
DrawRows_last(m, x, y, height, i, acc) ==
    IF i = height THEN acc
    ELSE LET yf == (y + i) % C8_SCREEN_HEIGHT
             flips == RowFlips(m, x, yf, i)
             last_px == <<yf, (x + 7) % C8_SCREEN_WIDTH>>
         IN  DrawRows_last(m, x, y, height, i + 1,
                 [ screen |-> XorPixels(acc.screen, flips),
                   collision |-> last_px \in flips \cap acc.screen ])

draw_sprite_last(m, x, y, height) ==
    LET acc == DrawRows_last(m, x, y, height, 0,
                             [screen |-> m.screen, collision |-> FALSE])
    IN  IF acc.collision
        THEN [m EXCEPT !.screen = acc.screen, !.regs[C8_FLAG_REG] = 1]
        ELSE [m EXCEPT !.screen = acc.screen]

\* draw_sprite that clips at the right and bottom edges instead of wrapping.
RECURSIVE DrawRows_clip(_, _, _, _, _, _)
DrawRows_clip(m, x, y, height, i, acc) ==
    IF i = height THEN acc
    ELSE LET yf == (y % C8_SCREEN_HEIGHT) + i
             flips == { <<yf, (x % C8_SCREEN_WIDTH) + j>> :
                          j \in {c \in 0 .. 7 :
                                   /\ SpriteBit(m, i, c) = 1
                                   /\ (x % C8_SCREEN_WIDTH) + c < C8_SCREEN_WIDTH} }
         IN  IF yf >= C8_SCREEN_HEIGHT
             THEN DrawRows_clip(m, x, y, height, i + 1, acc)
             ELSE DrawRows_clip(m, x, y, height, i + 1,
                     [ screen |-> XorPixels(acc.screen, flips),
                       collision |-> acc.collision
                                     \/ flips \cap acc.screen # {} ])

draw_sprite_clip(m, x, y, height) ==
    LET acc == DrawRows_clip(m, x, y, height, 0,
                             [screen |-> m.screen, collision |-> FALSE])
    IN  [m EXCEPT !.screen = acc.screen,
                  !.regs[C8_FLAG_REG] = IF acc.collision THEN 1 ELSE 0]

\* The outer loop of draw_sprite from row i on; acc holds the screen and the
\* local collision.  A pixel that was on and is flipped goes off: a collision.
RECURSIVE DrawRows(_, _, _, _, _, _)
DrawRows(m, x, y, height, i, acc) ==
    IF i = height THEN acc
    ELSE LET yf == ScreenRow(y, i)
             flips == RowFlips(m, x, yf, i)
         IN  DrawRows(m, x, y, height, i + 1,
                 [ screen |-> XorPixels(acc.screen, flips),
                   collision |-> acc.collision
                                 \/ flips \cap acc.screen # {} ])

\* Emulator::draw_sprite(x, y, height)
draw_sprite(m, x, y, height) ==
    LET acc == DrawRows(m, x, y, height, 0,
                        [screen |-> m.screen, collision |-> FALSE])
    IN  [m EXCEPT !.screen = acc.screen,
                  !.regs[C8_FLAG_REG] = IF acc.collision THEN 1 ELSE 0]

\* The stack index without the reduction.
StackIndex_raw(s) == s

\* A RET that reads the stack before it decrements sp (sp--).
RetSlot_post(s) == s

\* --sp of RET: the 8-bit value whose slot is read.
RetSlot(s) == U8(s - 1)

\* s % C8_STACK_SIZE, the index of every stack access.
StackIndex(s) == s % C8_STACK_SIZE

\* stack[i]; an index outside the array (none is, see call.stack_idx) is
\* recorded and the access left out.
StackRead(stk, i) == IF i \in DOMAIN stk THEN stk[i] ELSE 0
StackWrite(stk, i, v) == IF i \in DOMAIN stk THEN [stk EXCEPT ![i] = v] ELSE stk

\* A store loop that stops one register short: for (i = from; i < last; ++i).
RECURSIVE StoreRegs_below(_, _, _)
StoreRegs_below(m, from, last) ==
    IF from >= last THEN m
    ELSE StoreRegs_below([m EXCEPT !.ram = WriteRam(m.ram,
                                             RamIndex(m.index + from),
                                             m.regs[from])],
                         from + 1, last)

\* for (i = from; i <= last; ++i) ram[(index + i) % C8_RAM_SIZE] = regs[i];
RECURSIVE StoreRegs(_, _, _)
StoreRegs(m, from, last) ==
    IF from > last THEN m
    ELSE StoreRegs([m EXCEPT !.ram = WriteRam(m.ram,
                                       RamIndex(m.index + from),
                                       m.regs[from])],
                   from + 1, last)

\* for (i = from; i <= last; ++i) regs[i] = ram[(index + i) % C8_RAM_SIZE];
RECURSIVE LoadRegs(_, _, _)
LoadRegs(m, from, last) ==
    IF from > last THEN m
    ELSE LoadRegs([m EXCEPT !.regs[from] =
                       ReadRam(m.ram, RamIndex(m.index + from))],
                  from + 1, last)

\* A skip that is never taken.
SkipIf_never(m, cond) == m

\* if (cond) pc += C8_INS_LEN;
SkipIf(m, cond) == IF cond THEN [m EXCEPT !.pc = U16(m.pc + C8_INS_LEN)] ELSE m

\* The condition of SKP without its test for C8_KEY_NONE.
SkpCond_anykey(m, v) == v = m.key

\* key != C8_KEY_NONE && vvx == key
SkpCond(m, v) == m.key # C8_KEY_NONE /\ v = m.key

\* key == C8_KEY_NONE || vvx != key
SknpCond(m, v) == m.key = C8_KEY_NONE \/ v # m.key

\* A RND that masks the drawn byte with Vx.
RndValue_vx(rnd, byte, vvx) == BitAnd(rnd, vvx)

\* random_byte_distbr(rand_gen) & ins.byte
RndValue(rnd, byte, vvx) == BitAnd(rnd, byte)

\* The first switch of Emulator::step, for a legal instruction; rnd is the
\* byte drawn from random_byte_distbr.
Execute(m, ins, rnd) ==
    LET x == ins.vx
        y == ins.vy
        vvx == m.regs[x]
        vvy == m.regs[y]
        t == ins.type
    IN
    CASE t = "CLS" -> [m EXCEPT !.screen = {}]
      [] t = "RET" ->
            [m EXCEPT !.sp = U8(m.sp - 1),
                      !.pc = StackRead(m.stack, StackIndex(RetSlot(m.sp)))]
      [] t = "SYS_a" -> m
      [] t = "JP_a" -> [m EXCEPT !.pc = ins.addr]
      [] t = "CALL_a" ->
            [m EXCEPT !.stack = StackWrite(m.stack, StackIndex(m.sp),
                                           U16(m.pc + C8_INS_LEN)),
                      !.sp = U8(m.sp + 1),
                      !.pc = ins.addr]
      [] t = "SE_v_b" -> SkipIf(m, vvx = ins.byte)
      [] t = "SNE_v_b" -> SkipIf(m, vvx # ins.byte)
      [] t = "SE_v_v" -> SkipIf(m, vvx = vvy)
      [] t = "LD_v_b" -> [m EXCEPT !.regs[x] = ins.byte]
      [] t = "ADD_v_b" -> [m EXCEPT !.regs[x] = U8(vvx + ins.byte)]
      [] t = "LD_v_v" -> [m EXCEPT !.regs[x] = vvy]
      [] t = "OR_v_v" -> [m EXCEPT !.regs[x] = BitOr(vvx, vvy)]
      [] t = "AND_v_v" -> [m EXCEPT !.regs[x] = BitAnd(vvx, vvy)]
      [] t = "XOR_v_v" -> [m EXCEPT !.regs[x] = BitXor(vvx, vvy)]
      [] t = "ADD_v_v" ->
            LET r == add_with_ovf(m, vvx, vvy) IN
            [r.m EXCEPT !.regs[x] = r.s]
      [] t = "SUB_v_v" ->
            LET r == add_with_ovf(m, vvx, Negate8(vvy)) IN
            [r.m EXCEPT !.regs[x] = r.s]
      [] t = "SHR_v" ->
            LET m1 == [m EXCEPT !.regs[C8_FLAG_REG] = vvx % 2] IN
            [m1 EXCEPT !.regs[x] = m1.regs[x] \div 2]
      [] t = "SUBN_v_v" ->
            LET r == add_with_ovf(m, vvy, Negate8(vvx)) IN
            [r.m EXCEPT !.regs[x] = r.s]
      [] t = "SHL_v" ->
            LET m1 == [m EXCEPT !.regs[C8_FLAG_REG] = (vvx \div 128) % 2] IN
            [m1 EXCEPT !.regs[x] = U8(m1.regs[x] * 2)]
      [] t = "SNE_v_v" -> SkipIf(m, vvx # vvy)
      [] t = "LD_I_a" -> [m EXCEPT !.index = ins.addr]
      [] t = "JP_V0_a" -> [m EXCEPT !.pc = U16(m.regs[0] + ins.addr)]
      [] t = "RND_v_b" -> [m EXCEPT !.regs[x] = RndValue(rnd, ins.byte, vvx)]
      [] t = "DRW_v_v_n" -> draw_sprite(m, vvx, vvy, ins.nibble)
      [] t = "SKP_v" -> SkipIf(m, SkpCond(m, vvx))
      [] t = "SKNP_v" -> SkipIf(m, SknpCond(m, vvx))
      [] t = "LD_v_DT" -> [m EXCEPT !.regs[x] = delay_timer(m)]
      [] t = "LD_v_K" -> [m EXCEPT !.key_reg = x, !.wait_for_key = TRUE]
      [] t = "LD_DT_v" -> [m EXCEPT !.dtimer = vvx * TimerScale]
      [] t = "LD_ST_v" -> [m EXCEPT !.stimer = vvx * TimerScale]
      [] t = "ADD_I_v" -> [m EXCEPT !.index = U16(m.index + vvx)]
      [] t = "LD_F_v" -> [m EXCEPT !.index = C8_FONT_HEIGHT * vvx]
      [] t = "LD_B_v" ->
            LET r1 == WriteRam(m.ram, RamIndex(m.index + 0), vvx \div 100)
                r2 == WriteRam(r1, RamIndex(m.index + 1),
                               (vvx % 100) \div 10)
            IN  [m EXCEPT !.ram = WriteRam(r2, RamIndex(m.index + 2),
                                           vvx % 10)]
      [] t = "LD_IM_v" -> StoreRegs(m, 0, x)
      [] t = "LD_v_IM" -> LoadRegs(m, 0, x)

\* A second switch without its case labels: every instruction advances PC.
AdvancePC_all(m, ins) == [m EXCEPT !.pc = U16(m.pc + C8_INS_LEN)]

\* The second switch of Emulator::step.
AdvancePC(m, ins) ==
    IF ins.type \in {"RET", "JP_a", "CALL_a", "JP_V0_a", "LD_v_K"}
    THEN m
    ELSE [m EXCEPT !.pc = U16(m.pc + C8_INS_LEN)]

\* The stack indices one execution of ins uses.
StackAccess(m, ins) ==
    IF ins.type = "RET" THEN {StackIndex(RetSlot(m.sp))}
    ELSE IF ins.type = "CALL_a" THEN {StackIndex(m.sp)}
    ELSE {}

\* The ram indices of fetch_ins(pc % C8_RAM_SIZE).
FetchAccess(m) ==
    LET n == RamIndex(m.pc) IN {RamIndex(n), RamIndex(n + 1)}

\* The ram indices one execution of ins uses.
RamAccess(m, ins) ==
    CASE ins.type = "DRW_v_v_n" ->
            {RamIndex(m.index + i) : i \in 0 .. (ins.nibble - 1)}
      [] ins.type = "LD_B_v" -> {RamIndex(m.index + k) : k \in 0 .. 2}
      [] ins.type \in {"LD_IM_v", "LD_v_IM"} ->
            {RamIndex(m.index + i) : i \in 0 .. ins.vx}
      [] OTHER -> {}

\* The regs indices used once ins is decoded: the references vvx and vvy,
\* and the loop index of LD [I], Vx and LD Vx, [I].
RegAccess(m, ins) ==
    {ins.vx, ins.vy}
    \cup (IF ins.type \in {"LD_IM_v", "LD_v_IM"} THEN 0 .. ins.vx ELSE {})

\* The screen rows and columns one execution of ins indexes.
ScreenAccess(m, ins) ==
    IF ins.type = "DRW_v_v_n"
    THEN [ rows |-> {ScreenRow(m.regs[ins.vy], i) :
                       i \in 0 .. (ins.nibble - 1)},
           cols |-> IF ins.nibble = 0 THEN {}
                    ELSE {ScreenCol(m.regs[ins.vx], j) : j \in 0 .. 7} ]
    ELSE [rows |-> {}, cols |-> {}]

NoIndices ==
    [ stack_idx |-> {}, ram_idx |-> {}, reg_idx |-> {},
      screen_idx |-> [rows |-> {}, cols |-> {}] ]

NoIns == [type |-> "none", bincode |-> 0, addr |-> 0, vx |-> 0, vy |-> 0,
          byte |-> 0, nibble |-> 0]

\* A key branch that clears the latch and advances PC but writes no
\* register.
CommitKey_unwritten(m) ==
    [m EXCEPT !.pc = U16(m.pc + C8_INS_LEN), !.wait_for_key = FALSE]

\* The branch of step taken with the latch set and a key held:
\* pc += C8_INS_LEN; regs[key_reg] = key; wait_for_key = false.
CommitKey(m) ==
    [m EXCEPT !.pc = U16(m.pc + C8_INS_LEN),
              !.regs[m.key_reg] = m.key,
              !.wait_for_key = FALSE]

\* Emulator::step(): the machine it leaves, the value it returns, and what
\* it did: latch is "wait" (returned at the latch), "commit" (wrote the key
\* and went on) or "clear"; fetched tells whether a word was fetched and
\* decoded as ins, pre is the machine at that point (at the return for
\* "wait"), idx the array indices used.
step(m, dt, rnd) ==
    LET m1 == update_timers(m, dt) IN
    IF m1.wait_for_key /\ m1.key = C8_KEY_NONE
    THEN [ m |-> m1, ret |-> TRUE, latch |-> "wait", fetched |-> FALSE,
           pre |-> m1, ins |-> NoIns, idx |-> NoIndices ]
    ELSE
    LET m2 == IF m1.wait_for_key THEN CommitKey(m1) ELSE m1
        latch == IF m1.wait_for_key THEN "commit" ELSE "clear"
        bincode == fetch_ins(m2, RamIndex(m2.pc))
        ins == DecodedIns(bincode)
        key_idx == IF m1.wait_for_key THEN {m1.key_reg} ELSE {}
    IN  IF ins.type = ILLEGAL
        THEN [ m |-> m2, ret |-> FALSE, latch |-> latch, fetched |-> TRUE,
               pre |-> m2, ins |-> ins,
               idx |-> [NoIndices EXCEPT
                          !.ram_idx = FetchAccess(m2),
                          !.reg_idx = key_idx \cup {ins.vx, ins.vy}] ]
        ELSE [ m |-> AdvancePC(Execute(m2, ins, rnd), ins), ret |-> TRUE,
               latch |-> latch, fetched |-> TRUE, pre |-> m2, ins |-> ins,
               idx |-> [ stack_idx |-> StackAccess(m2, ins),
                         ram_idx |-> FetchAccess(m2) \cup RamAccess(m2, ins),
                         reg_idx |-> key_idx \cup RegAccess(m2, ins),
                         screen_idx |-> ScreenAccess(m2, ins) ] ]

----------------------------------------------------------------------------
(* ROM images the model runs *)

InsIndex(t) == CHOOSE i \in 1 .. Len(Instruction) : Instruction[i] = t

\* The word the assembler emits for instruction t with these operands.
Asm(t, vx, vy, imm) == EmitWord(Statement(OPCODES[InsIndex(t)], imm, vx, vy))

\* The ROM bytes of a sequence of words, high byte first.
RECURSIVE RomBytes(_)
RomBytes(words) ==
    IF words = <<>> THEN <<>>
    ELSE <<Head(words) \div 256, Head(words) % 256>> \o RomBytes(Tail(words))

ByteSamples ==
    (0 .. MaxByteLow) \cup ((255 - MaxByteLow) .. 255) \cup {127, 128}
RegSamples == {0, SampleReg, C8_FLAG_REG}
KeyInputs == {C8_KEY_NONE, 0, SampleKey}
XSamples == {0, DrawShift, C8_SCREEN_WIDTH - DrawShift, 255}
YSamples == {0, C8_SCREEN_HEIGHT - DrawShift, 255}
HeightSamples == {0, 1, C8_FONT_HEIGHT, 15}
IllegalWords == {32776, 57344, 65535}

\* LD Vx, a; LD Vy, b; op Vx, Vy; op Vx, Vy
ArithRoms ==
    { RomBytes(<< Asm("LD_v_b", x, 0, a), Asm("LD_v_b", y, 0, b),
                  Asm(op, x, y, 0), Asm(op, x, y, 0) >>) :
        op \in {"ADD_v_v", "SUB_v_v", "SUBN_v_v"},
        x \in RegSamples, y \in RegSamples,
        a \in ByteSamples, b \in ByteSamples }

\* LD I, s; LD Vx, px; LD Vy, py; DRW Vx, Vy, n; LD Vx, qx; DRW Vx, Vy, n
\* with the sprite at the font (s = 0) or at the program's own bytes.
DrawRoms ==
    { RomBytes(<< Asm("LD_I_a", 0, 0, s), Asm("LD_v_b", 0, 0, px),
                  Asm("LD_v_b", y, 0, py), Asm("DRW_v_v_n", 0, y, n),
                  Asm("LD_v_b", 0, 0, qx), Asm("DRW_v_v_n", 0, y, n) >>) :
        s \in {0, C8_PROG_START}, y \in {SampleReg, C8_FLAG_REG},
        px \in XSamples, py \in YSamples, qx \in XSamples,
        n \in HeightSamples }

\* LD Vx, K followed by one more word.
KeyRoms ==
    { RomBytes(<< Asm("LD_v_K", x, 0, 0), w >>) :
        x \in RegSamples,
        w \in IllegalWords \cup
              { 0, Asm("LD_v_b", 3, 0, 1), Asm("LD_v_K", 0, 0, 0),
                Asm("JP_a", 0, 0, C8_PROG_START) } }

\* Calls and returns within the stack's depth.
StackRoms ==
    { RomBytes(<< Asm("RET", 0, 0, 0) >>),
      RomBytes(<< Asm("CALL_a", 0, 0, C8_PROG_START + 4),
                  Asm("JP_a", 0, 0, C8_PROG_START),
                  Asm("RET", 0, 0, 0) >>),
      RomBytes(<< Asm("CALL_a", 0, 0, C8_PROG_START + 2),
                  Asm("RET", 0, 0, 0) >>) }

\* k nested calls and their returns: the routine at C8_PROG_START + 4 i
\* calls the next and returns, the k-th only returns, and the first goes on
\* with a jump to itself.
NestRom(k) ==
    RomBytes([i \in 1 .. (2 * k + 1) |->
                IF i = 2 THEN Asm("JP_a", 0, 0, C8_PROG_START + 2)
                ELSE IF i % 2 = 0 \/ i = 2 * k + 1 THEN Asm("RET", 0, 0, 0)
                ELSE Asm("CALL_a", 0, 0, C8_PROG_START + 2 * (i + 1))])

\* Nesting within the stack, as deep as the stack, and one call deeper.
NestRoms == { NestRom(k) : k \in {2, C8_STACK_SIZE, C8_STACK_SIZE + 1} }

\* A call that calls itself, nesting deeper than the stack.
DeepRoms == { RomBytes(<< Asm("CALL_a", 0, 0, C8_PROG_START) >>) }

\* The timers set from a register and read back.
TimerRoms ==
    { RomBytes(<< Asm("LD_v_b", 0, 0, v), Asm("LD_DT_v", 0, 0, 0),
                  Asm("LD_ST_v", 0, 0, 0), Asm("LD_v_DT", 1, 0, 0) >>) :
        v \in {1, 2} }

\* An illegal word first, or after one instruction.
IllegalRoms ==
    { RomBytes(<<w>>) : w \in IllegalWords } \cup
    { RomBytes(<< Asm("LD_v_b", 0, 0, 1), w >>) : w \in IllegalWords }

\* LD V5, a; LD V0, b; then a conditional skip on them.
SkipRoms ==
    { RomBytes(<< Asm("LD_v_b", SampleReg, 0, a), Asm("LD_v_b", 0, 0, b), w >>) :
        a \in {0, 1, 255}, b \in {0, 1, 255},
        w \in { Asm("SE_v_b", SampleReg, 0, 1), Asm("SNE_v_b", SampleReg, 0, 1),
                Asm("SE_v_v", SampleReg, 0, 0), Asm("SNE_v_v", SampleReg, 0, 0),
                Asm("SE_v_v", SampleReg, SampleReg, 0),
                Asm("SNE_v_v", SampleReg, SampleReg, 0) } }

\* LD Vx, a; SKP Vx or SKNP Vx, with a a key, C8_KEY_NONE or no key at all.
KeySkipRoms ==
    { RomBytes(<< Asm("LD_v_b", x, 0, a), Asm(op, x, 0, 0) >>) :
        x \in {0, SampleReg}, a \in {0, SampleKey, C8_KEY_NONE, 255},
        op \in {"SKP_v", "SKNP_v"} }

\* Jumps, up to the highest addresses a jump reaches.
JumpRoms ==
    { RomBytes(<< Asm("LD_v_b", 0, 0, a), Asm("JP_V0_a", 0, 0, t) >>) :
        a \in {0, 254, 255}, t \in {C8_PROG_START + 6, C8_RAM_SIZE - 1} }
    \cup { RomBytes(<< Asm("JP_a", 0, 0, t) >>) :
             t \in {C8_PROG_START + 4, C8_RAM_SIZE - 2, C8_RAM_SIZE - 1} }

\* LD V5, a; then one instruction of each remaining kind.
MiscRoms ==
    { RomBytes(<< Asm("LD_v_b", SampleReg, 0, a), w >>) :
        a \in {129, 255},
        w \in { Asm("CLS", 0, 0, 0), Asm("SYS_a", 0, 0, 291),
                Asm("ADD_v_b", SampleReg, 0, 255), Asm("LD_v_v", 0, SampleReg, 0),
                Asm("OR_v_v", 0, SampleReg, 0), Asm("AND_v_v", SampleReg, 0, 0),
                Asm("XOR_v_v", SampleReg, SampleReg, 0),
                Asm("SHR_v", SampleReg, 0, 0), Asm("SHL_v", SampleReg, 0, 0),
                Asm("LD_I_a", 0, 0, 291), Asm("RND_v_b", SampleReg, 0, 15),
                Asm("ADD_I_v", SampleReg, 0, 0), Asm("LD_F_v", SampleReg, 0, 0),
                Asm("LD_B_v", SampleReg, 0, 0), Asm("LD_IM_v", SampleReg, 0, 0),
                Asm("LD_v_IM", SampleReg, 0, 0), Asm("LD_v_DT", SampleReg, 0, 0),
                Asm("LD_DT_v", SampleReg, 0, 0),
                Asm("LD_ST_v", SampleReg, 0, 0) } }

\* Memory instructions with I at the top of RAM.
MemRoms ==
    { RomBytes(<< Asm("LD_I_a", 0, 0, s), Asm("LD_v_b", 1, 0, 123), w >>) :
        s \in {C8_RAM_SIZE - 2, C8_RAM_SIZE - 1},
        w \in { Asm("LD_B_v", 1, 0, 0), Asm("LD_IM_v", 1, 0, 0),
                Asm("LD_v_IM", 1, 0, 0), Asm("DRW_v_v_n", 0, 0, 2) } }

\* LD V0, 255; LD I, 0xFFF; then ADD I, V0; DRW V1, V1, 2 for ever: I runs
\* through its 16 bits.
IndexRoms ==
    { RomBytes(<< Asm("LD_v_b", 0, 0, 255), Asm("LD_I_a", 0, 0, C8_RAM_SIZE - 1),
                  Asm("ADD_I_v", 0, 0, 0), Asm("DRW_v_v_n", 1, 1, 2),
                  Asm("JP_a", 0, 0, C8_PROG_START + 4) >>) }

\* LD Vx, a; RND Vx, mask
RndRoms ==
    { RomBytes(<< Asm("LD_v_b", x, 0, a), Asm("RND_v_b", x, 0, mask) >>) :
        x \in {0, SampleReg}, a \in {0, 255}, mask \in {0, 170} }

\* The longest ROM the constructor takes and the shortest it rejects: zero
\* bytes with a last byte of 7.
SizeRoms ==
    { [i \in 1 .. n |-> IF i = n THEN 7 ELSE 0] :
        n \in { C8_RAM_SIZE - C8_PROG_START, C8_RAM_SIZE - C8_PROG_START + 1 } }

EmuRoms ==
    NestRoms \cup SizeRoms \cup RndRoms \cup ArithRoms \cup DrawRoms \cup KeyRoms \cup StackRoms \cup DeepRoms
    \cup TimerRoms \cup IllegalRoms \cup SkipRoms \cup KeySkipRoms
    \cup JumpRoms \cup MiscRoms \cup MemRoms \cup IndexRoms

HostRoms == IllegalRoms \cup TimerRoms \cup KeyRoms

StepBudget(r) ==
    IF r \in DeepRoms THEN MaxDeepSteps
    ELSE IF r \in IndexRoms THEN MaxIndexSteps
    ELSE IF r \in NestRoms THEN 2 * (C8_STACK_SIZE + 1) + 1
    ELSE MaxSteps

----------------------------------------------------------------------------
(* State, and the operations on it *)

NoCall ==
    [ made |-> FALSE, entry |-> EmulatorDefaults, dt |-> 0, rnd |-> 0,
      ret |-> TRUE, pending |-> <<>>, deepest |-> 0,
      popped |-> [on |-> FALSE, site |-> 0, sp |-> 0],
      latch |-> "clear", fetched |-> FALSE, pre |-> EmulatorDefaults,
      ins |-> NoIns, stack_idx |-> {}, ram_idx |-> {}, reg_idx |-> {},
      screen_idx |-> [rows |-> {}, cols |-> {}] ]

NoFn == [op |-> "none"]

\* No Parser constructed.
NoParser == [phase |-> "none"]

InitEmu(m) ==
    /\ pc = m.pc /\ index = m.index /\ sp = m.sp /\ key = m.key
    /\ regs = m.regs /\ screen = m.screen /\ error = m.error
    /\ wait_for_key = m.wait_for_key /\ dtimer = m.dtimer
    /\ stimer = m.stimer /\ key_reg = m.key_reg /\ stack = m.stack
    /\ ram = m.ram
    /\ age = 0 /\ call = NoCall /\ steps = 0

\* main() up to its loop: the ROM read, the Emulator made from it, and the
\* locals pressed_key, instr_per_frame and paused.
InitHost(roms) ==
    /\ rom \in roms
    /\ InitEmu(EmulatorNew(rom))
    /\ pressed_key = C8_KEY_NONE
    /\ instr_per_frame = 5
    /\ paused = FALSE
    /\ host_pc = IF EmulatorNew(rom).error THEN "exit" ELSE "frame"
    /\ frame_i = 0

\* The calls not yet returned from, oldest first, as a reader of the program
\* counts them: a CALL_a executed at address p is entered with p and the SP
\* it found, a RET executed takes the newest away.  call.deepest is the
\* deepest nesting since the list was last empty.
Calls(r) == r.ret /\ r.fetched /\ r.ins.type = "CALL_a"
Returns(r) == r.ret /\ r.fetched /\ r.ins.type = "RET"

Pending(pending, r) ==
    IF Calls(r)
    THEN Append(pending, [on |-> FALSE, site |-> r.pre.pc, sp |-> r.pre.sp])
    ELSE IF Returns(r) /\ pending # <<>>
    THEN SubSeq(pending, 1, Len(pending) - 1)
    ELSE pending

\* emu.key = k; emu.step()  (the body of the loop at main.cxx:361).  The
\* byte rnd drawn from the generator ranges over 0..255 when the word
\* executed is RND, and is not drawn otherwise.
DoStep(k) ==
    \E m0 \in {[Emu EXCEPT !.key = k]} :
    \E r0 \in {step(m0, age, 0)} :
    \E rnd \in (IF r0.ins.type = "RND_v_b" THEN 0 .. 255 ELSE {0}) :
    \E r \in {IF rnd = 0 THEN r0 ELSE step(m0, age, rnd)} :
        /\ SetEmu(r.m)
        /\ age' = 0
        /\ call' = [ made |-> TRUE, entry |-> m0, dt |-> age, rnd |-> rnd,
                     ret |-> r.ret,
                     pending |-> Pending(call.pending, r),
                     deepest |-> IF Calls(r) /\ call.pending = <<>> THEN 1
                                 ELSE IF Calls(r)
                                         /\ Len(call.pending) >= call.deepest
                                 THEN Len(call.pending) + 1
                                 ELSE call.deepest,
                     popped |-> IF Returns(r) /\ call.pending # <<>>
                                THEN [call.pending[Len(call.pending)]
                                        EXCEPT !.on = TRUE]
                                ELSE NoCall.popped,
                     latch |-> r.latch, fetched |-> r.fetched, pre |-> r.pre,
                     ins |-> r.ins, stack_idx |-> r.idx.stack_idx,
                     ram_idx |-> r.idx.ram_idx, reg_idx |-> r.idx.reg_idx,
                     screen_idx |-> r.idx.screen_idx ]
        /\ steps' = steps + 1

\* The clock advances by one quantum.  Elapsed time is told apart only while
\* a timer runs: with both accumulators at 0 update_timers leaves them at 0
\* whatever dt is.
TimePasses ==
    /\ dtimer > 0 \/ stimer > 0
    /\ age < MaxAge
    /\ age' = age + 1
    /\ UNCHANGED <<emu_vars, host_vars, call, steps, fn, parser>>

\* Emulator::reset_clock()
reset_clock ==
    /\ age > 0
    /\ age' = 0
    /\ UNCHANGED <<emu_vars, host_vars, call, steps, fn, parser>>

\* A caller of the Emulator's interface: it writes key and calls step().
CallStep ==
    /\ steps < StepBudget(rom)
    /\ \E k \in KeyInputs : DoStep(k)
    /\ UNCHANGED <<host_vars, fn, parser>>

InitEmulator == InitHost(EmuRoms) /\ fn = NoFn /\ parser = NoParser

NextEmu == CallStep \/ TimePasses \/ reset_clock

\* The Emulator under every caller that sets key and steps.
SpecEmu == InitEmulator /\ [][NextEmu]_vars

----------------------------------------------------------------------------
(* main() of src/emulator/main.cxx *)

\* The CHIP-8 keys the user holds down in the sampled frames.
KeyboardSample == {0, SampleKey}

SetMin(S) == CHOOSE a \in S : \A b \in S : a <= b

\* Lines 237-248: the key registered for the emulator, given the one
\* registered so far and the keys down in this frame.
PressedKey(prev_key, down) ==
    LET kept == IF prev_key # C8_KEY_NONE /\ prev_key \notin down
                THEN C8_KEY_NONE ELSE prev_key
    IN  IF kept = C8_KEY_NONE /\ down # {} THEN SetMin(down) ELSE kept

\* The UI keys pressed in the sampled frames: none, one of them, or SPACE
\* and ENTER together.
UiSamples ==
    { {}, {"LEFT"}, {"RIGHT"}, {"SPACE"}, {"ENTER"}, {"SPACE", "ENTER"} }

\* One pass of the while loop up to the stepping loop: the UI keys (speed,
\* pause, reset), the key registered for the emulator, the drawing (no
\* state), and for a paused frame reset_clock() and continue.
HostFrame ==
    /\ host_pc = "frame"
    /\ \E ui \in UiSamples, down \in SUBSET KeyboardSample :
        LET ipf == IF ~paused /\ "LEFT" \in ui /\ instr_per_frame > 1
                   THEN instr_per_frame - 1
                   ELSE IF ~paused /\ "RIGHT" \in ui THEN instr_per_frame + 1
                   ELSE instr_per_frame
            now_paused == IF "SPACE" \in ui THEN ~paused ELSE paused
            remade == "SPACE" \notin ui /\ "ENTER" \in ui
        IN  /\ ipf <= MaxIpf
            /\ instr_per_frame' = ipf
            /\ paused' = now_paused
            /\ pressed_key' = PressedKey(pressed_key, down)
            /\ IF remade
               THEN /\ SetEmu(EmulatorNew(rom))
                    /\ call' = NoCall
                    /\ steps' = 0
               ELSE UNCHANGED <<emu_vars, call, steps>>
            /\ age' = IF remade \/ now_paused THEN 0 ELSE age
            /\ host_pc' = IF now_paused THEN "frame" ELSE "run"
            /\ frame_i' = 0
    /\ UNCHANGED <<rom, fn, parser>>

\* One pass of the loop at lines 361-365: emu.key = pressed_key; step();
\* a failure is logged and the loop goes on.  After the last pass the frame
\* ends (the beep follows the sound timer; no state).
RunCode ==
    /\ host_pc = "run"
    /\ steps < StepBudget(rom)
    /\ DoStep(pressed_key)
    /\ frame_i' = IF frame_i + 1 < instr_per_frame THEN frame_i + 1 ELSE 0
    /\ host_pc' = IF frame_i + 1 < instr_per_frame THEN "run" ELSE "frame"
    /\ UNCHANGED <<rom, pressed_key, paused, instr_per_frame, fn, parser>>

\* WindowShouldClose() ends the loop.
WindowClose ==
    /\ host_pc = "frame"
    /\ host_pc' = "closed"
    /\ UNCHANGED <<emu_vars, age, rom, pressed_key, paused, instr_per_frame,
                   frame_i, call, steps, fn, parser>>

Init == InitHost(HostRoms) /\ fn = NoFn /\ parser = NoParser

Next == HostFrame \/ RunCode \/ WindowClose \/ TimePasses

\* The interpreter program: main() driving its Emulator.
Spec == Init /\ [][Next]_vars

----------------------------------------------------------------------------
(* The decoder and limit_value as pure functions of their arguments *)

FormatOf(i) == INSTRUCTION_FORMATS[i]

\* The number of register operands ("v") of format i.
NumRegs(i) ==
    Cardinality({k \in 1 .. Len(FormatOf(i)) : FormatOf(i)[k] = "v"})

\* The immediate operand of format i: "a", "b", "n", or "" for none.
ImmKind(i) ==
    LET ks == {FormatOf(i)[k] : k \in 1 .. Len(FormatOf(i))} \cap {"a", "b", "n"}
    IN  IF ks = {} THEN "" ELSE CHOOSE c \in ks : TRUE

\* limit_value's bits for each immediate kind (get_imm_bits).
ImmBits(kind) ==
    CASE kind = "a" -> 12 [] kind = "b" -> 8 [] kind = "n" -> 4 [] OTHER -> 0

\* Every instruction with every value of the operands its format has.
InitDecode ==
    /\ InitHost({<<>>})
    /\ parser = NoParser
    /\ \E i \in 1 .. Len(Instruction) :
       \E vx \in (IF NumRegs(i) >= 1 THEN RegIdx ELSE {0}) :
       \E vy \in (IF NumRegs(i) >= 2 THEN RegIdx ELSE {0}) :
       \E imm \in 0 .. (2 ^ ImmBits(ImmKind(i)) - 1) :
           fn = [op |-> "decode", ins |-> i, vx |-> vx, vy |-> vy,
                 imm |-> imm, done |-> FALSE, out |-> NoIns]

\* The word emitted for fn's instruction is decoded.
Decode ==
    /\ fn.op = "decode" /\ ~fn.done
    /\ fn' = [fn EXCEPT
                !.out = DecodedIns(EmitWord(Statement(OPCODES[fn.ins], fn.imm,
                                                      fn.vx, fn.vy))),
                !.done = TRUE]
    /\ UNCHANGED <<emu_vars, age, host_vars, call, steps, parser>>

NextDecode == Decode

SpecDecode == InitDecode /\ [][NextDecode]_vars

InitLimit ==
    /\ InitHost({<<>>})
    /\ parser = NoParser
    /\ fn \in { [op |-> "limit_value", value |-> n, bits |-> k,
                 done |-> FALSE, out |-> NoValue] :
                  n \in (0 - MaxImm) .. MaxImm, k \in {4, 8, 12} }

\* limit_value is applied to fn's arguments.
ApplyLimit ==
    /\ fn.op = "limit_value" /\ ~fn.done
    /\ fn' = [fn EXCEPT !.out = limit_value(fn.value, fn.bits), !.done = TRUE]
    /\ UNCHANGED <<emu_vars, age, host_vars, call, steps, parser>>

NextLimit == ApplyLimit

SpecLimit == InitLimit /\ [][NextLimit]_vars

InitClassify ==
    /\ InitHost({<<>>})
    /\ parser = NoParser
    /\ \E w \in 0 .. 65535 :
          fn = [op |-> "classify", word |-> w, done |-> FALSE, out |-> NoIns]

\* The 16-bit word of fn is decoded.
Classify ==
    /\ fn.op = "classify" /\ ~fn.done
    /\ fn' = [fn EXCEPT !.out = DecodedIns(fn.word), !.done = TRUE]
    /\ UNCHANGED <<emu_vars, age, host_vars, call, steps, parser>>

NextClassify == Classify

SpecClassify == InitClassify /\ [][NextClassify]_vars

\* The words the tokens fed to the matcher are lexed from: every mnemonic,
\* registers, special registers, punctuation, immediates, an identifier,
\* db and %define, some of them in lower case.
MatchWords ==
    { INSTRUCTIONS[i] : i \in 1 .. Len(INSTRUCTIONS) }
    \cup { "cls", "jp", "ld", "V0", "V1", "v0", "v1", "I", "i", "F", "B", "K",
            "DT", "dt", "ST", ",", "[", "]", ":", "\n", "0", "300", "0x204",
            "A", "db", "%define" }

\* The token Lexer::next gives for the text that is word w alone.
LexedToken(w) == LexerNext(NewLexer(<<w>>)).tok

\* The longest sequence fed, and the number of calls answered None after
\* which no more are made.
MaxFeed == 7
MaxNone == 1

\* matcher.start_new_match(); fn keeps the tokens fed, the codes try_next
\* returned and get_matched_rule() after each call.
InitMatch ==
    /\ InitHost({<<>>})
    /\ parser = NoParser
    /\ fn = [op |-> "match", matcher |-> start_new_match, fed |-> <<>>,
             codes |-> <<>>, rule |-> <<>>]

\* matcher.try_next(tok) for a token tok of the lexer.
Feed ==
    /\ fn.op = "match"
    /\ Len(fn.fed) < MaxFeed
    /\ Cardinality({k \in DOMAIN fn.codes : fn.codes[k] = "None"}) < MaxNone
    /\ \E w \in MatchWords :
          \E r \in {try_next(fn.matcher, LexedToken(w))} :
             fn' = [fn EXCEPT !.matcher = r.matcher,
                              !.fed = Append(@, LexedToken(w)),
                              !.codes = Append(@, r.code),
                              !.rule = Append(@, r.matcher.matched)]
    /\ UNCHANGED <<emu_vars, age, host_vars, call, steps, parser>>

NextMatch == Feed

SpecMatch == InitMatch /\ [][NextMatch]_vars

----------------------------------------------------------------------------
(* The assembler run on a source text (src/assembler/main.cxx:23-30).

   A program is a sequence of lines.  A line is written as a label (or ""),
   the words after the label, and what the line is in CHIP-8 assembly: an
   instruction or a data byte with its encoding before any label address is
   or-ed in, or neither, and the label it names (or ""). *)

Line(label, body, kind, code, ref) ==
    [label |-> label, body |-> body, kind |-> kind, code |-> code,
     ref |-> ref]

\* ref is the label an instruction names (JP t names A once t is defined
\* as A); ADD m, 1 and LD r are instructions once m and r are defined.
LineAlphabet ==
    { Line("A", <<"CLS">>, "ins", 224, ""),
      Line("E", <<"db", "7">>, "db", 7, ""),
      Line("A", <<"db", "-1">>, "db", 255, ""),
      Line("", <<"JP", "A">>, "ins", 4096, "A"),
      Line("", <<"CALL", "E">>, "ins", 8192, "E"),
      Line("", <<"LD", "V1", ",", "0xAB">>, "ins", 25003, ""),
      Line("", <<"LD", "I", ",", "C">>, "ins", 40960, "C"),
      Line("", <<"%define", "m", "V2">>, "none", 0, ""),
      Line("", <<"ADD", "m", ",", "1">>, "ins", 29185, ""),
      Line("A", <<>>, "none", 0, ""),
      Line("", <<"db", "300">>, "bad", 0, ""),
      Line("", <<"jp", "V0", ",", "E">>, "ins", 45056, "E"),
      Line("", <<"%define", "t", "A">>, "none", 0, ""),
      Line("", <<"JP", "t">>, "ins", 4096, "A"),
      Line("", <<"%define", "r", "V1", ",", "0xAB">>, "none", 0, ""),
      Line("", <<"LD", "r">>, "ins", 25003, "") }

\* The words of one line, with its newline.
LineWords(l) ==
    (IF l.label = "" THEN <<>> ELSE <<l.label, ":">>) \o l.body \o <<"\n">>

\* The text of lines lo .. hi (main.cxx appends the last newline when the
\* file lacks it).
RECURSIVE SourceText(_, _, _)
SourceText(lines, lo, hi) ==
    IF lo > hi THEN <<>>
    ELSE IF lo = hi THEN LineWords(lines[lo])
    ELSE SourceText(lines, lo, (lo + hi) \div 2)
         \o SourceText(lines, (lo + hi) \div 2 + 1, hi)

Source(lines) == SourceText(lines, 1, Len(lines))

\* Programs that reach ERROR_LIMIT: in the first pass, and in the label
\* pass.
LongPrograms ==
    { [i \in 1 .. (ERROR_LIMIT + 1) |-> l] :
        l \in { Line("", <<"db", "300">>, "bad", 0, ""),
                Line("", <<"LD", "I", ",", "C">>, "ins", 40960, "C") } }

\* Programs whose macro names are words the lexer gives another kind than
\* Identifier: a register, a mnemonic, and a register that is the whole
\* substitution text of a later %define.  The encodings are those of the
\* lines as the assembler reads them after the definitions.
KeywordMacroPrograms ==
    { << Line("", <<"%define", "V1", "V2">>, "none", 0, ""),
         Line("", <<"LD", "V1", ",", "0xAB">>, "ins", 25259, "") >>,
      << Line("", <<"%define", "JP", "CALL">>, "none", 0, ""),
         Line("A", <<"JP", "A">>, "ins", 8192, "A") >>,
      << Line("", <<"%define", "V2", "V3">>, "none", 0, ""),
         Line("", <<"%define", "m", "V2">>, "none", 0, ""),
         Line("", <<"ADD", "m", ",", "1">>, "ins", 29441, "") >> }

\* Programs whose substitution texts hold macro names: a macro that names
\* itself, used as a label and as an operand, and a macro whose text is the
\* name of a macro defined after it.
NestedMacroPrograms ==
    { << Line("", <<"%define", "X", "X">>, "none", 0, ""),
         Line("X", <<"JP", "X">>, "ins", 4096, "X") >>,
      << Line("", <<"%define", "m", "V2">>, "none", 0, ""),
         Line("", <<"%define", "V2", "V3">>, "none", 0, ""),
         Line("", <<"ADD", "m", ",", "1">>, "ins", 29185, "") >> }

\* Instructions with a negative immediate that limit_value accepts: a
\* byte, an address and a nibble.  The encoding is the word emitted.
NegativeLines ==
    { Line("", <<"LD", "V1", ",", "-1">>, "ins", 65535, ""),
      Line("", <<"SE", "V1", ",", "-128">>, "ins", 65408, ""),
      Line("", <<"JP", "-1">>, "ins", 65535, ""),
      Line("", <<"DRW", "V1", ",", "V2", ",", "-8">>, "ins", 65528, "") }

\* Each of them alone, and between two statements.
NegativePrograms ==
    { <<b>> : b \in NegativeLines }
    \cup { << Line("A", <<"CLS">>, "ins", 224, ""), b,
              Line("", <<"JP", "A">>, "ins", 4096, "A") >> :
             b \in NegativeLines }

\* Texts whose last line is %define with no name: main() appends a newline
\* to what it reads, so the file that ends without a newline gives the text
\* that ends with the newline of that line, and the file that ends with a
\* newline gives an empty line more.
LastDefinePrograms ==
    { << Line("", <<"%define">>, "bad", 0, "") >>,
      << Line("A", <<"CLS">>, "ins", 224, ""),
         Line("", <<"%define">>, "bad", 0, "") >>,
      << Line("", <<"%define">>, "bad", 0, ""),
         Line("", <<>>, "none", 0, "") >> }

\* Programs whose first line is %define with no name before the newline.
BareDefinePrograms ==
    { << Line("", <<"%define">>, "bad", 0, ""),
         Line("A", <<"CLS">>, "ins", 224, "") >>,
      << Line("", <<"%define">>, "bad", 0, ""),
         Line("A", <<"CLS">>, "ins", 224, ""),
         Line("", <<"JP", "A">>, "ins", 4096, "A") >> }

\* A program that defines macro m twice, with two texts, and then uses it
\* (the word emitted is the one the assembler gives: ADD V2, 1).
RedefinePrograms ==
    { << Line("", <<"%define", "m", "V2">>, "none", 0, ""),
         Line("", <<"%define", "m", "V3">>, "none", 0, ""),
         Line("", <<"ADD", "m", ",", "1">>, "ins", 29185, "") >> }

\* Instructions whose immediate does not fit its field: a byte, a nibble
\* and an address (kind "range"; the encoding is the one with immediate 0).
RangeLines ==
    { Line("", <<"LD", "V1", ",", "300">>, "range", 24832, ""),
      Line("", <<"DRW", "V1", ",", "V2", ",", "16">>, "range", 53536, ""),
      Line("", <<"JP", "0x1000">>, "range", 4096, "") }

\* Each of them alone, before a statement that names an undefined label,
\* and between two statements.
RangePrograms ==
    { <<b>> : b \in RangeLines }
    \cup { << b, Line("", <<"LD", "I", ",", "C">>, "ins", 40960, "C") >> :
             b \in RangeLines }
    \cup { << Line("A", <<"CLS">>, "ins", 224, ""), b,
              Line("", <<"JP", "A">>, "ins", 4096, "A") >> :
             b \in RangeLines }

Programs ==
    UNION { [1 .. n -> LineAlphabet] : n \in 1 .. MaxLines }
    \cup LongPrograms \cup KeywordMacroPrograms \cup RangePrograms
    \cup NestedMacroPrograms \cup BareDefinePrograms \cup NegativePrograms
    \cup LastDefinePrograms \cup RedefinePrograms

\* A text that begins with as many lines CLS as bring the next statement
\* to the last two bytes below address 65536.
ClsLine == Line("", <<"CLS">>, "ins", 224, "")

LongPrefix == (65536 - C8_PROG_START) \div C8_INS_LEN - 1

LongRest ==
    << Line("A", <<"CLS">>, "ins", 224, ""),
       Line("E", <<"db", "7">>, "db", 7, ""),
       Line("", <<"JP", "A">>, "ins", 4096, "A") >>

LongLines(n) == [i \in 1 .. n |-> ClsLine] \o LongRest

\* The Parser in the while loop of parse_and_assemble after the n lines
\* CLS of LongLines(n), n >= 1: every turn on a line CLS followed by a line
\* CLS moves the lexer two words on, appends the same statement and adds
\* C8_INSTR_LEN to next_stmt_addr, and leaves the rest as the turn found
\* it; the last of them finds the first token of LongRest.
ParserAfterCls(n) ==
    Bind(ParseTurn(advance(NewParser(Source(LongLines(1))))).p, LAMBDA one :
      [one EXCEPT
         !.lexer.source = Source(LongLines(n)),
         !.lexer.at = @ + 2 * (n - 1),
         !.statements = [i \in 1 .. n |-> one.statements[1]],
         !.next_stmt_addr = U16(C8_PROG_START + C8_INS_LEN * n)])

\* Parser parser(text), before parse_and_assemble is called; for the long
\* text, the Parser after its lines CLS.
InitAsm ==
    /\ InitHost({<<>>})
    /\ fn = NoFn
    /\ \/ \E lines \in Programs :
             parser = [phase |-> "constructed", lines |-> lines,
                       p |-> NewParser(Source(lines)), result |-> NoBytes]
       \/ parser = [phase |-> "parsing", lines |-> LongLines(LongPrefix),
                    p |-> ParserAfterCls(LongPrefix), result |-> NoBytes]

\* parse_and_assemble takes in the first token.
StartParsing ==
    /\ parser.phase = "constructed"
    /\ parser' = [parser EXCEPT !.p = advance(@), !.phase = "parsing"]
    /\ UNCHANGED <<emu_vars, age, host_vars, call, steps, fn>>

\* One turn of the while loop of parse_and_assemble.
ParseStatement ==
    /\ parser.phase = "parsing"
    /\ parser.p.current.kind # "Eof"
    /\ \E t \in {ParseTurn(parser.p)} :
          parser' = [parser EXCEPT
                       !.p = t.p,
                       !.phase = CASE t.out = "loop" -> "parsing"
                                   [] t.out = "stop" -> "returned"
                                   [] t.out = "hung" -> "hung"
                                   [] OTHER -> "aborted"]
    /\ UNCHANGED <<emu_vars, age, host_vars, call, steps, fn>>

\* The while loop has ended at Eof: labels are assigned and the bytes
\* emitted.
AssembleStatements ==
    /\ parser.phase = "parsing"
    /\ parser.p.current.kind = "Eof"
    /\ \E f \in {Finish(parser.p)} :
          parser' = [parser EXCEPT !.p = f.p, !.result = f.result,
                                   !.phase = "returned"]
    /\ UNCHANGED <<emu_vars, age, host_vars, call, steps, fn>>

NextAsm == StartParsing \/ ParseStatement \/ AssembleStatements

SpecAsm == InitAsm /\ [][NextAsm]_vars

----------------------------------------------------------------------------
(* Properties of Emulator::step *)

\* The last call of step fetched and executed an instruction of type t.
Executed(t) == call.made /\ call.fetched /\ call.ret /\ call.ins.type = t

\* C1: a call of step that finds the latch set and a key held writes the
\* key into the latched register, clears the latch, advances PC by exactly
\* 2 and returns success, without fetching or executing in that call.
C1_CommitOnly ==
    (call.made /\ call.latch = "commit") =>
        /\ ~call.fetched
        /\ call.ret
        /\ regs[call.entry.key_reg] = call.entry.key
        /\ ~wait_for_key
        /\ pc = U16(call.entry.pc + C8_INS_LEN)

\* C2: for a target register other than VF, SUB leaves Vx = (a - b) mod 256
\* and VF = 1 iff a >= b; SUBN leaves Vx = (b - a) mod 256 and VF = 1 iff
\* b >= a, where a and b are Vx and Vy before the instruction.
C2_SubNoBorrow ==
    \A t \in {"SUB_v_v", "SUBN_v_v"} :
        (Executed(t) /\ call.ins.vx # C8_FLAG_REG) =>
            LET a == call.pre.regs[call.ins.vx]
                b == call.pre.regs[call.ins.vy]
                hi == IF t = "SUB_v_v" THEN a ELSE b
                lo == IF t = "SUB_v_v" THEN b ELSE a
            IN  /\ regs[call.ins.vx] = (hi - lo) % 256
                /\ regs[C8_FLAG_REG] = IF hi >= lo THEN 1 ELSE 0

\* The operands of fn's instruction come back from the decoder, with the
\* instruction's tag.
RoundTrip ==
    /\ fn.out.type = Instruction[fn.ins]
    /\ (NumRegs(fn.ins) >= 1 => fn.out.vx = fn.vx)
    /\ (NumRegs(fn.ins) >= 2 => fn.out.vy = fn.vy)
    /\ (ImmKind(fn.ins) = "a" => fn.out.addr = fn.imm)
    /\ (ImmKind(fn.ins) = "b" => fn.out.byte = fn.imm)
    /\ (ImmKind(fn.ins) = "n" => fn.out.nibble = fn.imm)

\* SYS with the address 0x0E0 or 0x0EE: its word is that of CLS or RET.
SysAliased ==
    /\ Instruction[fn.ins] = "SYS_a"
    /\ fn.imm \in {OPCODES[InsIndex("CLS")], OPCODES[InsIndex("RET")]}

\* C3 as stated: decoding the word emitted for any of the 35 instructions
\* with any operands within their widths gives back the instruction's tag
\* and the operands.
C3_RoundTripAll == (fn.op = "decode" /\ fn.done) => RoundTrip

\* C3: decoding the word emitted for an instruction gives back its tag and
\* operands, for every instruction and operands within their widths other
\* than SYS with address 0x0E0 or 0x0EE, which come back as CLS and RET.
C3_RoundTrip ==
    (fn.op = "decode" /\ fn.done) =>
        IF SysAliased
        THEN fn.out.type = (IF fn.imm = OPCODES[InsIndex("CLS")]
                            THEN "CLS" ELSE "RET")
        ELSE RoundTrip

C3_Witness ==
    /\ fn.op = "decode" /\ fn.done
    /\ Instruction[fn.ins] = "DRW_v_v_n"
    /\ fn.vx = 10 /\ fn.vy = 5 /\ fn.imm = 15
    /\ fn.out.type = "DRW_v_v_n" /\ fn.out.bincode = 55903

\* C4: limit_value(n, k) returns n for 0 <= n <= 2^k - 1, the k-bit two's
\* complement 2^k - |n| for n < 0 with |n| <= 2^(k-1), and no value for
\* every other n.
C4_LimitValue ==
    (fn.op = "limit_value" /\ fn.done) =>
        LET n == fn.value
            k == fn.bits
        IN  fn.out = IF 0 <= n /\ n <= 2 ^ k - 1 THEN Value(n)
                     ELSE IF n < 0 /\ Abs(n) <= 2 ^ (k - 1)
                          THEN Value((2 ^ k - Abs(n)) % (2 ^ k))
                     ELSE NoValue

\* C5 as stated: SP is always in 0..15 and every stack access uses an
\* index in 0..15.
C5_SPInStack ==
    /\ sp \in 0 .. (C8_STACK_SIZE - 1)
    /\ call.stack_idx \subseteq 0 .. (C8_STACK_SIZE - 1)

\* C5: SP is always an 8-bit value (it leaves 0..15 after a RET on the
\* empty stack or a 16th nested CALL), and every stack read or write uses
\* an index in 0..15.
C5_StackIndex ==
    /\ sp \in 0 .. 255
    /\ call.stack_idx \subseteq 0 .. (C8_STACK_SIZE - 1)

C5_Witness ==
    /\ Executed("CALL_a")
    /\ call.pre.sp = C8_STACK_SIZE
    /\ sp = C8_STACK_SIZE + 1
    /\ call.stack_idx = {0}

\* C6: once a call of step has returned failure, the host does not call
\* step on that machine again.
C6_StopsStepping ==
    [][(call.made /\ ~call.ret) => ~(steps' = steps + 1)]_vars

\* C7: for a target register other than VF, ADD leaves Vx = (a + b) mod
\* 256 and VF = 1 if a + b >= 256, else 0, where a and b are Vx and Vy
\* before the instruction (x = y included).
C7_AddCarry ==
    (Executed("ADD_v_v") /\ call.ins.vx # C8_FLAG_REG) =>
        LET a == call.pre.regs[call.ins.vx]
            b == call.pre.regs[call.ins.vy]
        IN  /\ regs[call.ins.vx] = (a + b) % 256
            /\ regs[C8_FLAG_REG] = IF a + b >= 256 THEN 1 ELSE 0

\* An ADD without carry that found VF = 1 from the ADD before it.
C7_Witness ==
    /\ Executed("ADD_v_v")
    /\ call.ins.vx # C8_FLAG_REG
    /\ call.pre.regs[C8_FLAG_REG] = 1
    /\ call.pre.regs[call.ins.vx] + call.pre.regs[call.ins.vy] < 256
    /\ regs[C8_FLAG_REG] = 0

\* The pixels the sprite of the last DRW has a 1 bit for.
SpriteTargets ==
    LET m == call.pre
        x == m.regs[call.ins.vx]
        y == m.regs[call.ins.vy]
    IN  { <<(y + p[1]) % C8_SCREEN_HEIGHT, (x + p[2]) % C8_SCREEN_WIDTH>> :
            p \in { q \in (0 .. (call.ins.nibble - 1)) \X (0 .. 7) :
                      (ReadRam(m.ram, (m.index + q[1]) % C8_RAM_SIZE)
                           \div (2 ^ (7 - q[2]))) % 2 = 1 } }

\* C8: after DRW, VF = 1 iff some pixel went from 1 to 0, else VF = 0.
C8_Collision ==
    Executed("DRW_v_v_n") =>
        regs[C8_FLAG_REG] = IF call.pre.screen \ screen # {} THEN 1 ELSE 0

\* A DRW whose first row collided and whose last row did not.
C8_Witness ==
    /\ Executed("DRW_v_v_n")
    /\ call.ins.nibble > 1
    /\ regs[C8_FLAG_REG] = 1
    /\ \E p \in call.pre.screen \ screen :
          p[1] = call.pre.regs[call.ins.vy] % C8_SCREEN_HEIGHT
    /\ \E p \in screen \ call.pre.screen :
          p[1] = (call.pre.regs[call.ins.vy] + call.ins.nibble - 1)
                     % C8_SCREEN_HEIGHT

\* C9: DRW flips exactly the pixels ((Vx + j) mod 64, (Vy + i) mod 32) for
\* which bit j (MSB first) of sprite row i is 1, i < n, j < 8, and no other
\* pixel changes.
C9_DrawWraps ==
    Executed("DRW_v_v_n") =>
        screen = (call.pre.screen \ SpriteTargets)
                     \cup (SpriteTargets \ call.pre.screen)

\* A DRW at Vx >= 64 that crossed the right and the bottom edge.
C9_Witness ==
    /\ Executed("DRW_v_v_n")
    /\ call.pre.regs[call.ins.vx] >= C8_SCREEN_WIDTH
    /\ \E p \in screen : p[1] = C8_SCREEN_HEIGHT - 1 /\ p[2] = C8_SCREEN_WIDTH - 1
    /\ \E p \in screen : p[1] = 0 /\ p[2] = 0

\* C10: LD Vx, K sets the latch with x as its register and leaves PC where
\* it was; a step that finds the latch set and no key held returns success
\* without fetching and changes nothing but the timers.
C10_KeyWait ==
    /\ Executed("LD_v_K") =>
          /\ wait_for_key
          /\ key_reg = call.ins.vx
          /\ pc = call.pre.pc
    /\ (call.made /\ call.entry.wait_for_key /\ call.entry.key = C8_KEY_NONE) =>
          /\ call.ret
          /\ ~call.fetched
          /\ [Emu EXCEPT !.dtimer = 0, !.stimer = 0]
                 = [call.entry EXCEPT !.dtimer = 0, !.stimer = 0]

\* A second step in a row that waited at the latch.
C10_Witness ==
    /\ call.made /\ call.latch = "wait"
    /\ call.entry.wait_for_key /\ call.entry.key = C8_KEY_NONE
    /\ steps >= 3
    /\ wait_for_key /\ key_reg = SampleReg
    /\ pc = C8_PROG_START

\* The last step fetched at PC = p with the latch clear and executed.
FetchedClear == call.made /\ call.fetched /\ call.ret /\ call.latch = "clear"

\* The condition of the skip instruction executed last.
SkipTaken ==
    LET t == call.ins.type
        a == call.pre.regs[call.ins.vx]
        b == call.pre.regs[call.ins.vy]
        k == call.pre.key
    IN  CASE t = "SE_v_b" -> a = call.ins.byte
          [] t = "SNE_v_b" -> a # call.ins.byte
          [] t = "SE_v_v" -> a = b
          [] t = "SNE_v_v" -> a # b
          [] t = "SKP_v" -> k # C8_KEY_NONE /\ a = k
          [] t = "SKNP_v" -> k = C8_KEY_NONE \/ a # k
          [] OTHER -> FALSE

\* C11: a step that fetches at PC = p with the latch clear ends with PC =
\* p + 2, or p + 4 for a skip whose condition holds, except JP and CALL
\* (PC = addr), JP V0 (PC = V0 + addr), RET (the popped address) and
\* LD Vx, K (PC = p).
C11_PCAdvance ==
    FetchedClear =>
        LET t == call.ins.type
            p == call.entry.pc
            m == call.pre
        IN  pc = CASE t \in {"JP_a", "CALL_a"} -> call.ins.addr
                   [] t = "JP_V0_a" -> m.regs[0] + call.ins.addr
                   [] t = "RET" -> m.stack[((m.sp + 255) % 256) % C8_STACK_SIZE]
                   [] t = "LD_v_K" -> p
                   [] OTHER -> IF SkipTaken THEN p + 4 ELSE p + 2

\* A skip taken on two different registers.
C11_Witness ==
    /\ FetchedClear
    /\ call.ins.type = "SNE_v_v"
    /\ call.pre.regs[call.ins.vx] # call.pre.regs[call.ins.vy]
    /\ pc = call.entry.pc + 4

\* The tag the dispatch on the top nibble gives word w.
DispatchTag(w) ==
    LET top == w \div 4096
        lo == w % 16
        lb == w % 256
    IN  CASE top = 0 -> (IF w = 224 THEN "CLS" ELSE IF w = 238 THEN "RET"
                         ELSE "SYS_a")
          [] top \in 1 .. 7 ->
                << "JP_a", "CALL_a", "SE_v_b", "SNE_v_b", "SE_v_v", "LD_v_b",
                   "ADD_v_b" >>[top]
          [] top = 8 /\ lo <= 7 ->
                << "LD_v_v", "OR_v_v", "AND_v_v", "XOR_v_v", "ADD_v_v",
                   "SUB_v_v", "SHR_v", "SUBN_v_v" >>[lo + 1]
          [] top = 8 /\ lo = 14 -> "SHL_v"
          [] top \in 9 .. 13 ->
                << "SNE_v_v", "LD_I_a", "JP_V0_a", "RND_v_b",
                   "DRW_v_v_n" >>[top - 8]
          [] top = 14 /\ lb = 158 -> "SKP_v"
          [] top = 14 /\ lb = 161 -> "SKNP_v"
          [] top = 15 /\ lb \in {7, 10, 21, 24, 30, 41, 51, 85, 101} ->
                (CASE lb = 7 -> "LD_v_DT" [] lb = 10 -> "LD_v_K"
                   [] lb = 21 -> "LD_DT_v" [] lb = 24 -> "LD_ST_v"
                   [] lb = 30 -> "ADD_I_v" [] lb = 41 -> "LD_F_v"
                   [] lb = 51 -> "LD_B_v" [] lb = 85 -> "LD_IM_v"
                   [] OTHER -> "LD_v_IM")
          [] OTHER -> ILLEGAL

\* C12: DecodedIns gives every 16-bit word the tag of the dispatch on its
\* top nibble, one of the 35 tags or Illegal, and Illegal exactly for 8xyN
\* with N in 8..D or F, for Exkk with kk not 9E or A1, and for Fxkk with kk
\* not one of 07, 0A, 15, 18, 1E, 29, 33, 55, 65.
C12_Classify ==
    (fn.op = "classify" /\ fn.done) =>
        LET w == fn.word
            top == w \div 4096
            lo == w % 16
            lb == w % 256
        IN  /\ fn.out.type \in {Instruction[i] : i \in 1 .. Len(Instruction)}
                                 \cup {ILLEGAL}
            /\ fn.out.type = DispatchTag(w)
            /\ fn.out.type = ILLEGAL <=>
                  \/ top = 8 /\ lo \in (8 .. 13) \cup {15}
                  \/ top = 14 /\ lb \notin {158, 161}
                  \/ top = 15 /\ lb \notin {7, 10, 21, 24, 30, 41, 51, 85, 101}

\* 0x8FFF is classified Illegal.
C12_Witness ==
    /\ fn.op = "classify" /\ fn.done
    /\ fn.word = 36863
    /\ fn.out.type = ILLEGAL

\* C13: every ram access of step (the two bytes fetched, the sprite rows of
\* DRW, the three bytes of LD B, the Vx + 1 bytes of LD [I], Vx and
\* LD Vx, [I]) is at its address modulo 4096, and every index into ram, the
\* stack, the registers and the screen is within the array.
C13_InBounds ==
    /\ call.ram_idx \subseteq 0 .. 4095
    /\ call.stack_idx \subseteq 0 .. 15
    /\ call.reg_idx \subseteq 0 .. 15
    /\ call.screen_idx.rows \subseteq 0 .. 31
    /\ call.screen_idx.cols \subseteq 0 .. 63
    /\ (call.made /\ call.fetched) =>
          LET m == call.pre
              t == call.ins.type
              count == CASE ~call.ret -> 0
                         [] t = "DRW_v_v_n" -> call.ins.nibble
                         [] t = "LD_B_v" -> 3
                         [] t \in {"LD_IM_v", "LD_v_IM"} -> call.ins.vx + 1
                         [] OTHER -> 0
          IN  call.ram_idx =
                  {m.pc % 4096, (m.pc + 1) % 4096}
                  \cup {(m.index + i) % 4096 : i \in 0 .. (count - 1)}

\* LD [I], V1 with I = 0xFFF: V1 = 123 goes to address 0, over the font.
C13_Witness ==
    /\ Executed("LD_IM_v")
    /\ call.pre.index = 4095
    /\ call.ins.vx = 1
    /\ call.ram_idx = {C8_PROG_START + 4, C8_PROG_START + 5, 4095, 0}
    /\ ReadRam(call.pre.ram, 0) = 240
    /\ ReadRam(ram, 0) = 123

\* C20: SKP skips (PC += 4) iff a key is held and Vx equals it; SKNP skips
\* iff no key is held or Vx differs from the held key; with no key held
\* SKNP always skips and SKP never does, whatever Vx.
C20_KeySkips ==
    /\ Executed("SKP_v") =>
          pc = call.pre.pc +
                 (IF call.pre.key # C8_KEY_NONE
                     /\ call.pre.regs[call.ins.vx] = call.pre.key
                  THEN 4 ELSE 2)
    /\ Executed("SKNP_v") =>
          pc = call.pre.pc +
                 (IF call.pre.key = C8_KEY_NONE
                     \/ call.pre.regs[call.ins.vx] # call.pre.key
                  THEN 4 ELSE 2)
    /\ (Executed("SKP_v") /\ call.pre.key = C8_KEY_NONE) => pc = call.pre.pc + 2
    /\ (Executed("SKNP_v") /\ call.pre.key = C8_KEY_NONE) => pc = call.pre.pc + 4

\* SKP with Vx = 16 and no key held does not skip.
C20_Witness ==
    /\ Executed("SKP_v")
    /\ call.pre.key = C8_KEY_NONE
    /\ call.pre.regs[call.ins.vx] = C8_KEY_NONE
    /\ pc = call.pre.pc + 2

\* parse_and_assemble has returned bytes.
Assembled == parser.phase = "returned" /\ parser.result.ok

\* The lines of the program that are statements, in source order.
StatementLines == SelectSeq(parser.lines, LAMBDA l : l.kind \in {"ins", "db"})

\* The number of lines of each kind.
CountLines(kind) ==
    Cardinality({i \in 1 .. Len(parser.lines) : parser.lines[i].kind = kind})

\* opcode | imm | vx << 8 | vy << 4, high byte first, for an instruction;
\* imm & 0xFF for a data byte.
StatementBytes(st) ==
    IF st.is_data_byte THEN <<st.imm % 256>>
    ELSE LET code == BitOr(BitOr(BitOr(st.opcode, st.imm), st.vx * 256),
                           st.vy * 16)
         IN  <<code \div 256, code % 256>>

RECURSIVE ConcatBytes(_, _, _)
ConcatBytes(stmts, lo, hi) ==
    IF lo > hi THEN <<>>
    ELSE IF lo = hi THEN StatementBytes(stmts[lo])
    ELSE ConcatBytes(stmts, lo, (lo + hi) \div 2)
         \o ConcatBytes(stmts, (lo + hi) \div 2 + 1, hi)

\* C14: for a program assembled without error the ROM is the concatenation,
\* in source order, of one byte (imm & 0xFF) per db statement and two bytes
\* (opcode | imm | vx << 8 | vy << 4, high byte first) per instruction; its
\* length is twice the number of instructions plus the number of db lines.
C14_RomLayout ==
    Assembled =>
        LET stmts == parser.p.statements
            sl == StatementLines
        IN  /\ parser.result.bytes = ConcatBytes(stmts, 1, Len(stmts))
            /\ Len(parser.result.bytes)
                   = 2 * CountLines("ins") + CountLines("db")
            /\ Len(stmts) = Len(sl)
            /\ \A i \in 1 .. Len(stmts) :
                  /\ stmts[i].is_data_byte <=> sl[i].kind = "db"
                  /\ sl[i].ref = "" =>
                        StatementBytes(stmts[i]) =
                            IF sl[i].kind = "db" THEN <<sl[i].code>>
                            ELSE <<sl[i].code \div 256, sl[i].code % 256>>

\* CALL E; A: db -1; E: db 7 gives 22 03 FF 07.
C14_Witness ==
    /\ Assembled
    /\ Len(parser.lines) = 3
    /\ parser.lines[1].body = <<"CALL", "E">>
    /\ parser.lines[2].body = <<"db", "-1">>
    /\ parser.lines[3].body = <<"db", "7">>
    /\ parser.result.bytes = <<34, 3, 255, 7>>

\* The bytes a statement list takes: two per instruction, one per data
\* byte.
ByteSize(stmts) ==
    2 * Len(stmts) - Cardinality({i \in 1 .. Len(stmts) : stmts[i].is_data_byte})

\* next_stmt_addr is C8_PROG_START plus the bytes of the statement list.
AddressTracksSize ==
    parser.p.next_stmt_addr = C8_PROG_START + ByteSize(parser.p.statements)

\* A label defined in this turn gets the address after the statements
\* accepted before it; a turn that accepts no statement (a label alone, a
\* %define) leaves next_stmt_addr as it is.
LabelGetsAddress ==
    parser.phase = "parsing" =>
        /\ \A l \in (DOMAIN parser'.p.label_targets)
                      \ (DOMAIN parser.p.label_targets) :
              parser'.p.label_targets[l]
                  = C8_PROG_START + ByteSize(parser.p.statements)
        /\ Len(parser'.p.statements) = Len(parser.p.statements) =>
              parser'.p.next_stmt_addr = parser.p.next_stmt_addr

\* C15: the address recorded for a label is 0x200 plus twice the number of
\* instruction statements plus the number of db statements accepted before
\* it; next_stmt_addr is always 0x200 plus the byte size of the statement
\* list; label definitions and %define lines do not advance it.
C15_LabelAddresses == [](AddressTracksSize) /\ [][LabelGetsAddress]_vars

\* The index of the first line that defines label name, 0 for none.
DefiningLine(name) ==
    LET defs == {i \in 1 .. Len(parser.lines) : parser.lines[i].label = name}
    IN  IF defs = {} THEN 0 ELSE CHOOSE i \in defs : \A k \in defs : i <= k

\* The address of line i in the text: 0x200 plus two bytes per instruction
\* line and one per db line before it.
LineAddress(i) ==
    C8_PROG_START
    + 2 * Cardinality({k \in 1 .. (i - 1) : parser.lines[k].kind = "ins"})
    + Cardinality({k \in 1 .. (i - 1) : parser.lines[k].kind = "db"})

\* The statements that name a label.
Labelled ==
    {i \in 1 .. Len(parser.p.statements) :
        parser.p.statements[i].label.lexeme # <<>>}

\* C16: in an assembled program the immediate of every statement that
\* names a label is the address of that label, whether the label is
\* defined before or after the statement, and the two bytes emitted for it
\* are its encoding with that address; a statement naming an undefined
\* label is an error and no ROM is returned.
C16_LabelsResolved ==
    /\ Assembled =>
          \A i \in Labelled :
              LET st == parser.p.statements[i]
                  ln == StatementLines[i]
                  at == ByteSize(SubSeq(parser.p.statements, 1, i - 1))
                  addr == LineAddress(DefiningLine(ln.ref))
              IN  /\ st.label.lexeme = <<ln.ref>>
                  /\ DefiningLine(ln.ref) # 0
                  /\ parser.p.label_targets[st.label.lexeme] = addr
                  /\ st.imm = addr
                  /\ SubSeq(parser.result.bytes, at + 1, at + 2)
                        = << BitOr(ln.code, addr) \div 256,
                             BitOr(ln.code, addr) % 256 >>
    /\ ( /\ parser.phase = "returned"
         /\ \E i \in Labelled :
               parser.p.statements[i].label.lexeme
                   \notin DOMAIN parser.p.label_targets )
       => (~parser.result.ok /\ parser.p.error_count > 0)

\* JP A; E: db 7; A: CLS: the jump names a label defined two lines later
\* and is emitted as 12 03.
C16_Witness ==
    /\ Assembled
    /\ Len(parser.lines) = 3
    /\ parser.lines[1].body = <<"JP", "A">>
    /\ parser.lines[2].body = <<"db", "7">>
    /\ parser.lines[3].label = "A"
    /\ parser.p.statements[1].imm = C8_PROG_START + 3
    /\ parser.result.bytes = <<18, 3, 7, 0, 224>>

\* The turn of the while loop about to be taken parses a definition of a
\* label that is already defined: an Identifier in label_targets with a
\* colon after it.
DuplicateDefinition ==
    /\ parser.phase = "parsing"
    /\ parser.p.error_count < ERROR_LIMIT
    /\ parser.p.current.kind = "Identifier"
    /\ parser.p.current.lexeme \in DOMAIN parser.p.label_targets
    /\ match(advance(parser.p), "Char", Value(Colon))

\* Two lines of the text define the same label.
DuplicateInText ==
    LET defs == {i \in 1 .. Len(parser.lines) : parser.lines[i].label # ""}
    IN  Cardinality({parser.lines[i].label : i \in defs}) < Cardinality(defs)

DuplicateKeepsFirst ==
    DuplicateDefinition =>
        /\ parser'.p.error_count > parser.p.error_count
        /\ parser'.p.label_targets = parser.p.label_targets

\* C17: defining a label a second time raises the error count and leaves
\* the label at the address of its first definition, and no ROM is
\* returned for the program.
C17_DuplicateLabel ==
    /\ [][DuplicateKeepsFirst]_vars
    /\ []((parser.phase = "returned" /\ DuplicateInText)
             => (~parser.result.ok /\ parser.p.error_count > 0))

\* A: CLS; E: db 7; A: db -1: A stays at 0x200, one error, no ROM.
C17_Witness ==
    /\ parser.phase = "returned"
    /\ Len(parser.lines) = 3
    /\ parser.lines[1].label = "A" /\ parser.lines[1].kind = "ins"
    /\ parser.lines[2].label = "E"
    /\ parser.lines[3].label = "A" /\ parser.lines[3].kind = "db"
    /\ parser.p.label_targets[<<"A">>] = C8_PROG_START
    /\ parser.p.next_stmt_addr = C8_PROG_START + 3
    /\ parser.p.error_count = 1
    /\ parser.result = NoBytes

\* C18: parse_and_assemble returns bytes only if no error was logged: with
\* error_count non-zero at the end of the parsing pass or of the label
\* pass the result is empty.
C18_NoRomOnError ==
    parser.phase = "returned" =>
        /\ parser.result.ok <=> parser.p.error_count = 0
        /\ parser.p.error_count # 0 => parser.result = NoBytes

\* LD I, C alone: the statement is accepted, the label pass logs the one
\* error, and nothing is returned.
C18_Witness ==
    /\ parser.phase = "returned"
    /\ Len(parser.lines) = 1
    /\ parser.lines[1].body = <<"LD", "I", ",", "C">>
    /\ Len(parser.p.statements) = 1
    /\ parser.p.error_count = 1
    /\ parser.result = NoBytes

\* The lines of the text of the form %define name sub.
DefineLines ==
    {d \in 1 .. Len(parser.lines) :
        /\ Len(parser.lines[d].body) >= 2
        /\ parser.lines[d].body[1] = "%define"}

MacroName(d) == parser.lines[d].body[2]
MacroSub(d) == SubSeq(parser.lines[d].body, 3, Len(parser.lines[d].body))

\* The words ws with sub written in place of every word name.
RECURSIVE Substitute(_, _, _)
Substitute(ws, name, sub) ==
    IF ws = <<>> THEN <<>>
    ELSE (IF Head(ws) = name THEN sub ELSE <<Head(ws)>>)
         \o Substitute(Tail(ws), name, sub)

\* The text without its line d, and with the substitution of line d
\* written in place of its name in the statements after it.
Expanded(d) ==
    [ i \in 1 .. (Len(parser.lines) - 1) |->
        IF i < d THEN parser.lines[i]
        ELSE LET l == parser.lines[i + 1]
             IN  IF i + 1 \in DefineLines THEN l
                 ELSE [l EXCEPT !.body = Substitute(@, MacroName(d), MacroSub(d))] ]

\* No word of the substitution of line d is the name of a macro of the
\* text.
SubIsPlain(d) ==
    \A k \in 1 .. Len(MacroSub(d)) :
        \A e \in DefineLines : MacroSub(d)[k] # MacroName(e)

\* The name of line d is written in no other %define line: it is used in
\* statements only.
UsedInStatementsOnly(d) ==
    \A e \in DefineLines \ {d} :
        \A k \in 1 .. Len(parser.lines[e].body) :
            parser.lines[e].body[k] # MacroName(d)

\* C19: a program with a line %define name sub, where no identifier of sub
\* is a macro name, and with name used as an operand of statements, ends
\* as the program does that has sub written in place of name in the
\* statements after that line: the same bytes, or the same failure.
C19_MacroHygiene ==
    parser.phase \in {"returned", "hung", "aborted"} =>
        \A d \in DefineLines :
            (SubIsPlain(d) /\ UsedInStatementsOnly(d)) =>
                parse_and_assemble(Source(Expanded(d)))
                    = [ended |-> parser.phase, result |-> parser.result]

\* %define m V2; ADD m, 1; LD V1, 0xAB gives 72 01 61 AB.
C19_Witness ==
    /\ Assembled
    /\ Len(parser.lines) = 3
    /\ parser.lines[1].body = <<"%define", "m", "V2">>
    /\ parser.lines[2].body = <<"ADD", "m", ",", "1">>
    /\ parser.lines[3].body = <<"LD", "V1", ",", "0xAB">>
    /\ SubIsPlain(1) /\ UsedInStatementsOnly(1)
    /\ parser.result.bytes = <<114, 1, 97, 171>>
    /\ parse_and_assemble(Source(Expanded(1))).result = parser.result

\* C21: after RND Vx, mask the register Vx holds the byte drawn ANDed with
\* the mask, whatever Vx held before, so no bit outside the mask is set;
\* every other register and every other member but pc is as it was.
C21_Rnd ==
    Executed("RND_v_b") =>
        LET x == call.ins.vx
        IN  /\ regs[x] = BitAnd(call.rnd, call.ins.byte)
            /\ BitAnd(regs[x], 255 - call.ins.byte) = 0
            /\ call.rnd \in 0 .. 255
            /\ \A r \in RegIdx \ {x} : regs[r] = call.pre.regs[r]
            /\ [Emu EXCEPT !.regs = call.pre.regs, !.pc = call.pre.pc]
                   = call.pre

\* RND V5, 15 with V5 = 255 before, a byte drawn with bits outside the mask
\* and a result that is neither 0 nor the mask.
C21_Witness ==
    /\ Executed("RND_v_b")
    /\ call.ins.vx = SampleReg
    /\ call.pre.regs[SampleReg] = 255
    /\ call.ins.byte = 15
    /\ call.rnd = 165
    /\ regs[SampleReg] = 5

\* The x + 1 addresses LD [I], Vx and LD Vx, [I] use.
BlockAddresses == {(call.pre.index + i) % C8_RAM_SIZE : i \in 0 .. call.ins.vx}

\* C22: LD [I], Vx copies V0..Vx to ram[(I + i) mod 4096] and changes no
\* other byte of ram and no register; LD Vx, [I] copies those bytes to
\* V0..Vx and changes no register above Vx and no byte of ram; both leave
\* I as it was.
C22_BlockCopy ==
    /\ Executed("LD_IM_v") =>
          /\ \A i \in 0 .. call.ins.vx :
                ReadRam(ram, (call.pre.index + i) % C8_RAM_SIZE)
                    = call.pre.regs[i]
          /\ \A a \in RamIdx \ BlockAddresses :
                ReadRam(ram, a) = ReadRam(call.pre.ram, a)
          /\ index = call.pre.index
          /\ regs = call.pre.regs
    /\ Executed("LD_v_IM") =>
          /\ \A i \in 0 .. call.ins.vx :
                regs[i] = ReadRam(call.pre.ram,
                                  (call.pre.index + i) % C8_RAM_SIZE)
          /\ \A r \in RegIdx : r > call.ins.vx => regs[r] = call.pre.regs[r]
          /\ index = call.pre.index
          /\ ram = call.pre.ram

\* LD [I], V1 with I = 0xFFF: V0 goes to the last byte of ram and V1 to
\* address 0, over the first font byte.
C22_Witness ==
    /\ Executed("LD_IM_v")
    /\ call.ins.vx = 1
    /\ call.pre.index = C8_RAM_SIZE - 1
    /\ call.pre.regs[1] = 123
    /\ ReadRam(call.pre.ram, 0) # 123
    /\ ReadRam(ram, 0) = 123
    /\ BlockAddresses = {C8_RAM_SIZE - 1, 0}

\* t lowered by dt and clamped at 0.
Lowered(t, dt) == IF t - dt < 0 THEN 0 ELSE t - dt

TimersNonNegative == dtimer >= 0 /\ stimer >= 0

\* A call of step() lowers both accumulators by the time on the clock (age,
\* in quanta of 1/(60 * TimerScale) second, so that 60 times the time is age
\* quanta of a tick), clamped at 0, and starts the clock again; only LD DT, Vx
\* and LD ST, Vx then write a timer.
StepLowersTimers ==
    steps' = steps + 1 =>
        LET c == call'
            ran(t) == c.fetched /\ c.ret /\ c.ins.type = t
        IN  /\ c.dt = age
            /\ age' = 0
            /\ dtimer' = IF ran("LD_DT_v")
                         THEN c.pre.regs[c.ins.vx] * TimerScale
                         ELSE Lowered(dtimer, age)
            /\ stimer' = IF ran("LD_ST_v")
                         THEN c.pre.regs[c.ins.vx] * TimerScale
                         ELSE Lowered(stimer, age)
            /\ ~ran("LD_DT_v") => dtimer' <= dtimer
            /\ ~ran("LD_ST_v") => stimer' <= stimer

\* Between two calls of step() the clock only runs on, or is set back to 0
\* by reset_clock, which forgets the time that had passed; neither touches
\* a timer.
ClockBetweenSteps ==
    steps' = steps =>
        /\ age' = age + 1 \/ age' = 0
        /\ dtimer' = dtimer /\ stimer' = stimer

\* C23: both timers are >= 0 in every state; a step lowers each by the
\* time since the previous step or the last reset_clock, clamped at 0, and
\* raises none but by LD DT, Vx / LD ST, Vx; time before a reset_clock is
\* never subtracted.
C23_Timers ==
    /\ []TimersNonNegative
    /\ [][StepLowersTimers]_vars
    /\ [][ClockBetweenSteps]_vars

\* A step MaxAge quanta after the one before it lowered the sound timer
\* from MaxAge quanta to 0 and clamped the delay timer, which had less left.
C23_Witness ==
    /\ call.made
    /\ call.dt = MaxAge
    /\ call.entry.stimer = MaxAge
    /\ stimer = 0
    /\ call.entry.dtimer = MaxAge - 1
    /\ dtimer = 0

\* The byte the constructor leaves at address a for ROM bytes.
ConstructedByte(bytes, a) ==
    IF a < C8_FONT_CNT * C8_FONT_HEIGHT
    THEN FONT_SPRITES[(a \div C8_FONT_HEIGHT) + 1][(a % C8_FONT_HEIGHT) + 1]
    ELSE IF a >= C8_PROG_START /\ a < C8_PROG_START + Len(bytes)
    THEN bytes[a - C8_PROG_START + 1]
    ELSE 0

\* The state right after construction: no step made, the clock just started.
Constructed == steps = 0 /\ ~call.made /\ age = 0

\* C24: an Emulator made from a ROM of at most 3584 bytes has PC = 0x200,
\* SP = 0, I = 0, every register 0, no key, the latch clear, the 16 font
\* sprites at 0x000..0x04F, the ROM from 0x200 and 0 in every other byte;
\* a longer ROM sets the error state and is not copied.
C24_Constructor ==
    Constructed =>
        IF Len(rom) <= C8_RAM_SIZE - C8_PROG_START
        THEN /\ ~error
             /\ pc = C8_PROG_START /\ sp = 0 /\ index = 0
             /\ \A v \in RegIdx : regs[v] = 0
             /\ key = C8_KEY_NONE
             /\ ~wait_for_key
             /\ \A a \in RamIdx : ReadRam(ram, a) = ConstructedByte(rom, a)
        ELSE /\ error
             /\ \A a \in RamIdx : ReadRam(ram, a) = 0

\* The longest ROM: its last byte is at the last address of ram.
C24_Witness ==
    /\ Constructed
    /\ Len(rom) = C8_RAM_SIZE - C8_PROG_START
    /\ ~error
    /\ ReadRam(ram, C8_RAM_SIZE - 1) = 7
    /\ ReadRam(ram, C8_FONT_CNT * C8_FONT_HEIGHT - 1) = 128

\* The Parser at the calls of advance() that read the line current is on
\* from the primary lexer: the one about to be made, the ones at the later
\* words of the line, and for a %define line the one parse_define makes
\* with the line mode set.  Only lexer, macros and active_macro, which
\* advance() reads, are as at those calls.
PrimaryStates ==
    LET p == parser.p
    IN  IF parser.phase # "parsing" \/ p.active_macro.on THEN {}
        ELSE IF p.lexer.next_token_as_line THEN {p}
        ELSE IF p.current.kind = "Define"
        THEN {p} \cup
             { q \in {[advance(p) EXCEPT
                         !.lexer = set_next_token_as_line(@)]} :
                 ~q.active_macro.on }
        ELSE { [p EXCEPT !.lexer.at = k] :
                 k \in p.lexer.at .. LineEnd(p.lexer.source, p.lexer.at) }

\* advance() left the token of the primary lexer as current, unexpanded.
PassedThrough(q) ==
    LET r == LexerNext(q.lexer)
    IN  /\ advance(q).current = r.tok
        /\ advance(q).lexer = r.lexer
        /\ ~advance(q).active_macro.on

\* advance() switched to the macro named by the token of the primary lexer:
\* current is the first token of its substitution, marked with the macro
\* and placed where the macro's name stands.
ExpandedToken(q) ==
    LET r == LexerNext(q.lexer)
        sub == q.macros[r.tok.lexeme].subst
    IN  /\ advance(q).active_macro.on
        /\ advance(q).active_macro.macro = r.tok.lexeme
        /\ advance(q).current =
              [LexerNext(NewLexer(sub)).tok EXCEPT
                  !.origin = r.tok.lexeme, !.pos = r.tok.pos]

\* C25 as stated: a token of the primary lexer whose kind is not Identifier
\* is passed through unchanged, even when its lexeme is a macro name.
C25_OnlyIdentifiersExpand ==
    \A q \in PrimaryStates :
        LexerNext(q.lexer).tok.kind # "Identifier" => PassedThrough(q)

\* C25: a token of the primary lexer is expanded exactly when its lexeme is
\* the name of a defined macro, whatever its kind; Immediate, Char, Define
\* and Eof tokens never are, for no macro name equals their lexeme.
C25_AnyKindExpands ==
    \A q \in PrimaryStates :
        LET r == LexerNext(q.lexer)
        IN  /\ r.tok.lexeme \in DOMAIN q.macros =>
                  (q.macros[r.tok.lexeme].subst # <<>> => ExpandedToken(q))
            /\ r.tok.lexeme \notin DOMAIN q.macros => PassedThrough(q)
            /\ r.tok.kind \in {"Immediate", "Char", "Define", "Eof"} =>
                  r.tok.lexeme \notin DOMAIN q.macros

\* After %define V1 V2, at LD V1, 0xAB: the Register token V1 is replaced
\* by the Register token V2 of the macro.
C25_Witness ==
    /\ parser.phase = "parsing"
    /\ parser.p.current.lexeme = <<"LD">>
    /\ <<"V1">> \in DOMAIN parser.p.macros
    /\ parser.p \in PrimaryStates
    /\ LexerNext(parser.p.lexer).tok.kind = "Register"
    /\ LexerNext(parser.p.lexer).tok.lexeme = <<"V1">>
    /\ advance(parser.p).current.kind = "Register"
    /\ advance(parser.p).current.lexeme = <<"V2">>
    /\ advance(parser.p).current.origin = <<"V1">>

\* The line of the text whose first token is current, for current a token
\* of the primary lexer: one more than the newlines before it.
CurrentLine ==
    1 + Cardinality({i \in 1 .. (parser.p.lexer.at - 2) :
                        parser.p.lexer.source[i] = "\n"})

\* The while loop is about to parse an instruction whose immediate is out
\* of range.
AtRangeLine ==
    /\ parser.phase = "parsing"
    /\ parser.p.current.kind = "Instruction"
    /\ parser.p.error_count < ERROR_LIMIT
    /\ parser.lines[CurrentLine].kind = "range"

\* C26 as stated: parsing an instruction with an out-of-range immediate
\* logs one error, goes on to the end of the statement, and appends the
\* statement with immediate 0.
RangeErrorKeepsStatement ==
    AtRangeLine =>
        LET old == parser.p.statements
            new == parser'.p.statements
        IN  /\ parser'.phase = "parsing"
            /\ parser'.p.error_count = parser.p.error_count + 1
            /\ Len(new) = Len(old) + 1
            /\ SubSeq(new, 1, Len(old)) = old
            /\ new[Len(new)].imm = 0
            /\ EmitWord(new[Len(new)]) = parser.lines[CurrentLine].code

C26_RangeErrorKeepsStatement == [][RangeErrorKeepsStatement]_vars

\* The Parser at the calls of advance() made for the line current is on:
\* the one about to be made and, but on a %define line, whose rest is read
\* in line mode, the ones after each token up to the newline.
RECURSIVE LineStates(_)
LineStates(p) ==
    IF p.current.kind \in {"Eof", "Define"}
       \/ (p.current.kind = "Char" /\ p.current.value = NewLine)
    THEN {p}
    ELSE {p} \cup LineStates(advance(p))

\* The Parser states above in which a macro is being expanded.
ActiveStates ==
    IF parser.phase # "parsing" THEN {}
    ELSE { q \in LineStates(parser.p) : q.active_macro.on }

\* Token t as advance() marks a token of the active macro of q.
Marked(q, t) ==
    [t EXCEPT !.origin = q.active_macro.macro,
              !.pos = q.active_macro.expand_pos]

\* current is the token of the substitution text before the place the
\* macro's lexer is at, marked; expand_pos is where the macro's name stands
\* in the text of the primary lexer.
FromSubstitution(q) ==
    LET am == q.active_macro
    IN  /\ am.macro \in DOMAIN q.macros
        /\ am.lexer.source = q.macros[am.macro].subst
        /\ am.lexer.at >= 2
        /\ q.current =
              Marked(q, LexerNext([am.lexer EXCEPT !.at = @ - 1]).tok)
        /\ SubSeq(q.lexer.source, am.expand_pos,
                  am.expand_pos + Len(am.macro) - 1) = am.macro

\* advance() takes the next token of the substitution text and looks no
\* lexeme up; at its end it does what it does with no macro active.
NextFromSubstitution(q) ==
    LET r == LexerNext(q.active_macro.lexer)
        n == advance(q)
        o == advance([q EXCEPT !.active_macro = NoActiveMacro])
    IN  IF r.tok.kind # "Eof"
        THEN /\ n.current = Marked(q, r.tok)
             /\ n.active_macro = [q.active_macro EXCEPT !.lexer = r.lexer]
             /\ n.lexer = q.lexer
        ELSE /\ n = o
             /\ n.lexer.at > q.lexer.at \/ n.current.kind = "Eof"
             /\ n.active_macro.on => n.active_macro.expand_pos = q.lexer.at

\* C27: while a macro is active, current is a token of its substitution
\* text that carries the macro as origin and the place of the macro's name
\* as position; advance() then takes the next token of that text without
\* looking it up, and at the end of the text reads the primary lexer again;
\* it makes at most one call of the macro's lexer and two calls for every
\* word of the primary text it passes, a self-naming macro included.
C27_OneLevelExpansion ==
    /\ \A q \in ActiveStates :
          FromSubstitution(q) /\ NextFromSubstitution(q)
    /\ parser.phase = "parsing" =>
          \A q \in LineStates(parser.p) :
             LexerCalls(q) <= 1 + 2 * (advance(q).lexer.at - q.lexer.at + 1)

\* After %define X X, at X: JP X, the operand X has come from the text of
\* macro X: it is current as an Identifier that is not expanded again, and
\* the next advance() leaves the macro for the newline of the primary text.
C27_Witness ==
    /\ parser.phase = "parsing"
    /\ <<"X">> \in DOMAIN parser.p.macros
    /\ parser.p.macros[<<"X">>].subst = <<"X">>
    /\ \E q \in ActiveStates :
          /\ q.previous.lexeme = <<"JP">>
          /\ q.current.kind = "Identifier"
          /\ q.current.lexeme = <<"X">>
          /\ q.current.origin = <<"X">>
          /\ q.current.lexeme \in DOMAIN q.macros
          /\ LexerCalls([q EXCEPT !.active_macro = NoActiveMacro,
                                  !.lexer.at = q.active_macro.expand_pos])
                = 2
          /\ ~advance(q).active_macro.on
          /\ advance(q).current.value = NewLine

\* The token fed by the last call of try_next.
LastFed == fn.fed[Len(fn.fed)]

\* The codes match_one gives token tok on the rules of matcher m that are
\* still candidates, None left out.
Roles(m, tok) ==
    { match_one(INSTRUCTION_FORMATS[i][m.match_count + 1], tok) :
        i \in { j \in m.matching :
                  m.match_count < Len(INSTRUCTION_FORMATS[j]) } } \ {"None"}

\* A call of try_next with an Immediate token returns Address, Byte, Nibble
\* or None, and before a rule is recorded the candidates give the token at
\* most one code.
ImmediateHasOneRole ==
    fn'.fed # fn.fed /\ fn'.fed[Len(fn'.fed)].kind = "Immediate" =>
        /\ fn'.codes[Len(fn'.codes)] \in {"Address", "Byte", "Nibble", "None"}
        /\ fn.matcher.matched = 0 =>
              /\ Cardinality(Roles(fn.matcher, fn'.fed[Len(fn'.fed)])) <= 1
              /\ Roles(fn.matcher, fn'.fed[Len(fn'.fed)])
                    \subseteq {fn'.codes[Len(fn'.codes)]}

\* C28: whatever tokens were fed since start_new_match, try_next never
\* returns Multiple for an Immediate token: the rules still candidates give
\* it one of Address, Byte and Nibble, or none does.
C28_NoAmbiguousImmediate == [][ImmediateHasOneRole]_vars

\* After LD V1 , five formats are candidates (LD_v_b, LD_v_v, LD_v_DT,
\* LD_v_K, LD_v_IM); the Immediate 0 is a Byte and records LD_v_b.
C28_Witness ==
    /\ fn.op = "match"
    /\ Len(fn.fed) = 4
    /\ fn.fed[1].lexeme = <<"LD">>
    /\ fn.fed[2].kind = "Register"
    /\ fn.fed[3].lexeme = <<",">>
    /\ LastFed.kind = "Immediate"
    /\ fn.codes[4] = "Byte"
    /\ fn.matcher.matched # 0
    /\ Instruction[fn.matcher.matched] = "LD_v_b"

\* Token tok stands where a format has lexeme rule_token: a Register for v,
\* an Identifier or an Immediate for a, an Immediate for b and n, and for
\* any other lexeme a token spelt like it but for the case of letters.
TokenFits(rule_token, tok) ==
    CASE rule_token = "v" -> tok.kind = "Register"
      [] rule_token = "a" -> tok.kind \in {"Identifier", "Immediate"}
      [] rule_token \in {"b", "n"} -> tok.kind = "Immediate"
      [] OTHER -> Len(tok.lexeme) = 1 /\ Fold(tok.lexeme[1]) = Fold(rule_token)

\* The first n tokens fed begin an instance of format i.
BeginsFormat(n, i) ==
    /\ n <= Len(INSTRUCTION_FORMATS[i])
    /\ \A k \in 1 .. n : TokenFits(INSTRUCTION_FORMATS[i][k], fn.fed[k])

\* The first n tokens fed are an instance of format i.
Instantiates(n, i) == n = Len(INSTRUCTION_FORMATS[i]) /\ BeginsFormat(n, i)

Formats == 1 .. Len(INSTRUCTION_FORMATS)

\* An instance of format i has rule i recorded by the call that takes its
\* last token, every call before it returning a code other than None and
\* recording nothing; nothing but an instance records a rule.
InstanceRecorded ==
    /\ \A n \in 1 .. Len(fn.fed) : \A i \in Formats :
          Instantiates(n, i) =>
             /\ fn.rule[n] = i
             /\ \A k \in 1 .. (n - 1) :
                   fn.rule[k] = 0 /\ fn.codes[k] # "None"
    /\ \A n \in 1 .. Len(fn.fed) :
          fn.rule[n] # 0 =>
             \E k \in 1 .. n : Instantiates(k, fn.rule[n])

\* Once a rule is recorded every further call returns None and leaves it
\* recorded.
NoneAfterRecorded ==
    \A n \in 1 .. Len(fn.fed) :
       fn.rule[n] # 0 =>
          \A k \in (n + 1) .. Len(fn.fed) :
             fn.codes[k] = "None" /\ fn.rule[k] = fn.rule[n]

\* C29 as stated: with the two clauses above, the first n tokens fed, if
\* they begin no instance of a format, have got None and no rule is
\* recorded.
C29_MatcherRecords ==
    fn.op = "match" =>
       /\ InstanceRecorded
       /\ NoneAfterRecorded
       /\ \A n \in 1 .. Len(fn.fed) :
             (\A i \in Formats : ~BeginsFormat(n, i)) =>
                /\ \E k \in 1 .. n : fn.codes[k] = "None"
                /\ fn.rule[n] = 0

\* C29: an instance of a format gets its rule recorded on its last token
\* and not earlier; after that every call returns None; tokens that begin
\* no instance and are not an instance followed by more tokens get None at
\* the first token that fits no candidate, with no rule recorded; those
\* that are an instance followed by more tokens get None with the rule of
\* the instance still recorded.
C29_MatcherRecordsFirstInstance ==
    fn.op = "match" =>
       /\ InstanceRecorded
       /\ NoneAfterRecorded
       /\ \A n \in 1 .. Len(fn.fed) :
             (\A i \in Formats : ~BeginsFormat(n, i)) =>
                IF \E k \in 1 .. n : \E i \in Formats : Instantiates(k, i)
                THEN fn.codes[n] = "None" /\ fn.rule[n] # 0
                ELSE fn.codes[n] = "None" /\ fn.rule[n] = 0
       /\ \A n \in 1 .. Len(fn.fed) :
             (\E i \in Formats : BeginsFormat(n, i)) => fn.codes[n] # "None"

\* DRW v , v0 , 0 is an instance of the longest format: DRW_v_v_n is
\* recorded by the sixth call and not before, and the seventh token gets
\* None.
C29_Witness ==
    /\ fn.op = "match"
    /\ Len(fn.fed) = 7
    /\ Instantiates(6, 24)
    /\ fn.fed[4].lexeme = <<"v0">>
    /\ fn.codes = <<"Exact", "Register", "Exact", "Register", "Exact",
                    "Nibble", "None">>
    /\ fn.rule = <<0, 0, 0, 0, 0, 24, 24>>
    /\ Instruction[24] = "DRW_v_v_n"

\* The Parser of the step's end had it begun the line after the one the
\* statement starts on with nothing pending: no macro active, the lexer at
\* the first word of that line and not in line mode.
AtFollowingLine ==
    LET e == LineEnd(parser.p.lexer.source, parser.p.current.pos)
    IN  advance([parser'.p EXCEPT
                   !.lexer = [@ EXCEPT !.at = e + 1,
                                       !.next_token_as_line = FALSE],
                   !.active_macro = NoActiveMacro])

\* A turn of the loop in which parse_statement returns Err and recover()
\* returns ends with current the first token of the following line, read as
\* that line alone would be.
RecoverResumesAtNextLine ==
    /\ parser.phase = "parsing"
    /\ parser'.phase = "parsing"
    /\ parser.p.current.kind # "Eof"
    /\ parser.p.error_count < ERROR_LIMIT
    /\ parse_statement(parser.p).res = "Err"
    => /\ parser'.p.current = AtFollowingLine.current
       /\ parser'.p.lexer = AtFollowingLine.lexer
       /\ parser'.p.active_macro = AtFollowingLine.active_macro

\* C30: after a statement fails, recover() consumes the tokens up to and
\* including the next newline, and the loop goes on with the first token
\* of the following line, classified as it is when that line is read alone.
C30_RecoverResumesAtNextLine == [][RecoverResumesAtNextLine]_vars

\* The instruction the matcher selected for statement st: the one whose
\* opcode parse_instruction stored.
Selected(st) == CHOOSE i \in Formats : OPCODES[i] = st.opcode

\* The number of registers format i takes, and the width of its immediate.
RegistersOf(i) ==
    Cardinality({k \in 1 .. Len(INSTRUCTION_FORMATS[i]) :
                    INSTRUCTION_FORMATS[i][k] = "v"})

ImmediateBits(i) ==
    IF \E k \in 1 .. Len(INSTRUCTION_FORMATS[i]) :
          INSTRUCTION_FORMATS[i][k] = "a" THEN 12
    ELSE IF \E k \in 1 .. Len(INSTRUCTION_FORMATS[i]) :
          INSTRUCTION_FORMATS[i][k] = "b" THEN 8
    ELSE IF \E k \in 1 .. Len(INSTRUCTION_FORMATS[i]) :
          INSTRUCTION_FORMATS[i][k] = "n" THEN 4
    ELSE 0

\* The word emitted for st decodes to the selected instruction with the
\* registers of st, and the immediate of st has no bit above its field.
OperandsIsolated(st) ==
    LET d == DecodedIns(EmitWord(st))
        f == Selected(st)
    IN  /\ d.type = Instruction[f]
        /\ RegistersOf(f) >= 1 => d.vx = st.vx
        /\ RegistersOf(f) >= 2 => d.vy = st.vy
        /\ st.imm < 2 ^ ImmediateBits(f)

\* C31: in a program assembled without error, the word of every
\* instruction decodes to the instruction the matcher selected, with vx and
\* vy the registers of the source, and its immediate stays in its field.
C31_OperandIsolation ==
    Assembled =>
        \A i \in 1 .. Len(parser.p.statements) :
           ~parser.p.statements[i].is_data_byte =>
              OperandsIsolated(parser.p.statements[i])

\* The machine but for the timers is as the call of step found it.
UntouchedByCall ==
    /\ pc = call.entry.pc /\ sp = call.entry.sp /\ index = call.entry.index
    /\ regs = call.entry.regs /\ ram = call.entry.ram
    /\ stack = call.entry.stack /\ screen = call.entry.screen
    /\ wait_for_key = call.entry.wait_for_key

\* C32: a call of step that returns failure leaves PC, SP, I, V0..VF, RAM,
\* the stack, the framebuffer and the wait-for-key latch as it found them,
\* also when the latch was set and a key was held on entry.
C32_IllegalLeavesMachine ==
    (call.made /\ ~call.ret) => UntouchedByCall

\* A call of Lexer::next moves the lexer on or returns Eof.
LexerCallConsumes(lx) ==
    LexerNext(lx).lexer.at > lx.at \/ LexerNext(lx).tok.kind = "Eof"

\* C33: parse_and_assemble returns for every text: recover() reaches a
\* newline or stops at the end of the text and never goes on fetching Eof,
\* and every call of the lexer consumes a character or returns Eof.
C33_AssemblyTerminates ==
    /\ parser.phase # "hung"
    /\ \A q \in PrimaryStates : LexerCallConsumes(q.lexer)

\* CALL_a at address p stores p + 2 at stack[SP mod 16], increments SP and
\* sets PC to the address.
CallPushes ==
    Executed("CALL_a") =>
        /\ stack = [call.pre.stack EXCEPT
                      ![call.pre.sp % C8_STACK_SIZE] =
                          U16(call.pre.pc + C8_INS_LEN)]
        /\ sp = U8(call.pre.sp + 1)
        /\ pc = call.ins.addr

\* RET decrements SP and sets PC to stack[SP mod 16].
RetPops ==
    Executed("RET") =>
        /\ sp = U8(call.pre.sp - 1)
        /\ pc = call.pre.stack[sp % C8_STACK_SIZE]
        /\ stack = call.pre.stack

\* A RET that ends a call nested no deeper than the stack returns to the
\* address after that call and restores the SP the call found.
ReturnsToCaller ==
    (Executed("RET") /\ call.popped.on /\ call.deepest <= C8_STACK_SIZE) =>
        /\ pc = U16(call.popped.site + C8_INS_LEN)
        /\ sp = call.popped.sp

\* C34: CALL_a pushes the address after it and RET pops it, so calls nested
\* at most 16 deep return in reverse order, each to the address after its
\* call, and the last return restores SP.
C34_CallRetLifo == CallPushes /\ RetPops /\ ReturnsToCaller

\* The last return of 16 nested calls: it goes back to the address after
\* the first call with SP 0 again.
C34_Witness ==
    /\ rom = NestRom(C8_STACK_SIZE)
    /\ Executed("RET")
    /\ call.popped.on
    /\ call.deepest = C8_STACK_SIZE
    /\ call.pending = <<>>
    /\ call.entry.sp = 1
    /\ pc = C8_PROG_START + C8_INS_LEN
    /\ sp = 0

\* A call of step is made in this transition.
StepMade == steps' = steps + 1

\* A call of step that finds the latch set: with no key held PC, the latch,
\* its register and V0..VF stay; with key k held the latch is cleared, Vx
\* receives k and PC moves past the LD Vx, K, which is how the call finds
\* the machine when it goes on to fetch the next word.
StepAtLatch ==
    (StepMade /\ wait_for_key) =>
        IF call'.entry.key = C8_KEY_NONE
        THEN /\ call'.latch = "wait"
             /\ pc' = pc /\ wait_for_key' /\ key_reg' = key_reg
             /\ regs' = regs
        ELSE /\ call'.latch = "commit"
             /\ call'.entry.key \in 0 .. (C8_KEY_CNT - 1)
             /\ ~call'.pre.wait_for_key
             /\ call'.pre.regs = [regs EXCEPT ![key_reg] = call'.entry.key]
             /\ call'.pre.pc = U16(pc + C8_INS_LEN)

\* LD Vx, K executed at address A leaves the latch set for x and PC at A.
StepSetsLatch ==
    (StepMade /\ call'.fetched /\ call'.ret /\ call'.ins.type = "LD_v_K") =>
        /\ wait_for_key' /\ key_reg' = call'.ins.vx
        /\ pc' = call'.pre.pc

\* C35: after LD Vx, K at address A the host's steps with key NONE leave PC
\* at A and the latch set; the step at which the host supplies a key k in
\* 0..15 clears the latch and writes k to Vx; no step clears the latch
\* otherwise.
C35_KeyWaitLiveness == [][StepAtLatch /\ StepSetsLatch]_vars

\* The host stepped twice with no key and then with key 7: V5 has received
\* 7 and the latch is clear when the call goes on to the word after
\* LD V5, K.
C35_Witness ==
    /\ call.made /\ call.latch = "commit"
    /\ steps >= 4
    /\ call.entry.wait_for_key /\ call.entry.key_reg = SampleReg
    /\ call.entry.key = SampleKey
    /\ call.entry.regs[SampleReg] = 0
    /\ call.entry.pc = C8_PROG_START
    /\ call.pre.regs[SampleReg] = SampleKey
    /\ ~call.pre.wait_for_key
    /\ pressed_key = SampleKey

\* The label address of st is in 0x200 .. 0xFFF, and the word emitted for
\* st has the top nibble of its opcode.
LabelFitsField(st) ==
    /\ st.imm \in C8_PROG_START .. (C8_RAM_SIZE - 1)
    /\ EmitWord(st) \div 4096 = st.opcode \div 4096

\* C36: in a program assembled without error every label address written
\* into an instruction is in 0x200 .. 0xFFF and leaves the top nibble of
\* the opcode as it is; a program that extends past 0xFFF is not assembled
\* into words with another opcode.
C36_LabelAddressFits ==
    Assembled =>
        \A i \in Labelled : LabelFitsField(parser.p.statements[i])

\* A turn of the loop on a %define line ends with the lexer where reading
\* that line alone leaves it: everything taken in line mode lies before the
\* newline of the line, and the first token of the following line is read
\* with the flag down.
DefineStaysOnLine ==
    /\ parser.phase = "parsing"
    /\ parser'.phase = "parsing"
    /\ parser.p.current.kind = "Define"
    /\ parser.p.error_count < ERROR_LIMIT
    => /\ parser'.p.lexer = AtFollowingLine.lexer
       /\ parser'.p.current = AtFollowingLine.current

\* The token a turn of the loop begins with was not read in line mode, and
\* the flag is down.
LineModeConsumed ==
    parser.phase = "parsing" =>
        /\ parser.p.current.kind # "Raw"
        /\ ~parser.p.lexer.next_token_as_line

\* C37: the line-mode flag is consumed on the line of the %define that set
\* it: the Raw token spans the rest of that line, and the first token of a
\* later line is never fetched with the flag set, also after a %define
\* with no name and the recovery from it.
C37_LineModeStaysOnLine ==
    [](LineModeConsumed) /\ [][DefineStaysOnLine]_vars

\* The word after %define on the line a turn of the loop begins with, and
\* the words after it up to the newline.
DefinedName == parser.p.lexer.source[parser.p.lexer.at]
DefinedText ==
    SubSeq(parser.p.lexer.source, parser.p.lexer.at + 1,
           LineEnd(parser.p.lexer.source, parser.p.lexer.at) - 1)

\* The turn of the loop is on a line %define NAME text2 with NAME the name
\* of a macro defined before.
Redefines ==
    /\ parser.phase = "parsing"
    /\ parser.p.current.kind = "Define"
    /\ parser.p.error_count < ERROR_LIMIT
    /\ ~is_at_end(parser.p.lexer)
    /\ <<DefinedName>> \in DOMAIN parser.p.macros

\* The turn stores text2 under NAME and leaves every other entry, and the
\* set of names, as they were.
RedefinitionReplaces ==
    Redefines =>
        parser'.p.macros =
            MapSet(parser.p.macros, <<DefinedName>>,
                   [name |-> <<DefinedName>>, subst |-> DefinedText])

\* C38: a second %define NAME text2 for a defined NAME replaces the
\* substitution stored under NAME, so that later uses of NAME expand to
\* text2, and creates or changes no entry under another name.
C38_RedefinitionReplaces == [][RedefinitionReplaces]_vars

=============================================================================
